---- MODULE Spec2Model ----
(***************************************************************************)
(* A model of xmilib.XMIT, the decoder of XMIT (TSO/E INMCOPY) files and   *)
(* AWS/HET virtual tapes, and of its inspection facade.                    *)
(*                                                                         *)
(* Representation.  A Python bytes object is a sequence of naturals below  *)
(* 256.  A Python str obtained by decoding bytes is the sequence of its    *)
(* Unicode code points.  A literal str of the source (a dict key, a MIME   *)
(* type, an exception text) is a TLA+ string.  A Python dict is a function *)
(* whose domain is its key set; where the code depends on insertion order  *)
(* the order is kept beside it.  The outcome of a call is a record         *)
(* [kind |-> "ok", val |-> v] or [kind |-> "raise", val |-> exception].    *)
(***************************************************************************)
EXTENDS Integers, Sequences, FiniteSets, TLC

\* ---------------------------------------------------------------- bounds
MaxDirBlocks == 2

MaxMembers == 2
MaxBlocks == 3
MaxData == 2
MaxShort == 4

\* ------------------------------------------------------- byte primitives
Min(a, b) == IF a < b THEN a ELSE b

Max(a, b) == IF a > b THEN a ELSE b

EmptyDict == << >>

\* s[a:b] of Python: negative indices count from the end, and a slice that
\* runs past the end is silently cut short.
PySlice(s, a, b) ==
  LET n  == Len(s)
      lo == IF a < 0 THEN Max(n + a, 0) ELSE Min(a, n)
      hi == IF b < 0 THEN Max(n + b, 0) ELSE Min(b, n)
  IN  IF lo >= hi THEN << >> ELSE SubSeq(s, lo + 1, hi)

\* s[a:] of Python.
PyFrom(s, a) == PySlice(s, a, Len(s))

RECURSIVE get_int(_)
get_int(bytes) ==
  IF bytes = << >> THEN 0
  ELSE get_int(SubSeq(bytes, 1, Len(bytes) - 1)) * 256 + bytes[Len(bytes)]

RECURSIVE Join(_)
Join(parts) ==
  IF parts = << >> THEN << >> ELSE Head(parts) \o Join(Tail(parts))

\* ------------------------------------------------------------ codec layer
CP1140 ==
  << 0, 1, 2, 3, 156, 9, 134, 127, 151, 141, 142, 11, 12, 13, 14, 15,
     16, 17, 18, 19, 157, 133, 8, 135, 24, 25, 146, 143, 28, 29, 30, 31,
     128, 129, 130, 131, 132, 10, 23, 27, 136, 137, 138, 139, 140, 5, 6, 7,
     144, 145, 22, 147, 148, 149, 150, 4, 152, 153, 154, 155, 20, 21, 158, 26,
     32, 160, 226, 228, 224, 225, 227, 229, 231, 241, 162, 46, 60, 40, 43, 124,
     38, 233, 234, 235, 232, 237, 238, 239, 236, 223, 33, 36, 42, 41, 59, 172,
     45, 47, 194, 196, 192, 193, 195, 197, 199, 209, 166, 44, 37, 95, 62, 63,
     248, 201, 202, 203, 200, 205, 206, 207, 204, 96, 58, 35, 64, 39, 61, 34,
     216, 97, 98, 99, 100, 101, 102, 103, 104, 105, 171, 187, 240, 253, 254, 177,
     176, 106, 107, 108, 109, 110, 111, 112, 113, 114, 170, 186, 230, 184, 198, 8364,
     181, 126, 115, 116, 117, 118, 119, 120, 121, 122, 161, 191, 208, 221, 222, 174,
     94, 163, 165, 183, 169, 167, 182, 188, 189, 190, 91, 93, 175, 168, 180, 215,
     123, 65, 66, 67, 68, 69, 70, 71, 72, 73, 173, 244, 246, 242, 243, 245,
     125, 74, 75, 76, 77, 78, 79, 80, 81, 82, 185, 251, 252, 249, 250, 255,
     92, 247, 83, 84, 85, 86, 87, 88, 89, 90, 178, 212, 214, 210, 211, 213,
     48, 49, 50, 51, 52, 53, 54, 55, 56, 57, 179, 219, 220, 217, 218, 159 >>

\* bytes.decode(self.ebcdic) under the default codepage, cp1140.
decode(bytes) == [i \in 1..Len(bytes) |-> CP1140[bytes[i] + 1]]

\* The code points of 'INMR01', and its bytes in cp1140.
STR_INMR01 == << 73, 78, 77, 82, 48, 49 >>

STR_INMR02 == << 73, 78, 77, 82, 48, 50 >>

STR_INMR03 == << 73, 78, 77, 82, 48, 51 >>

STR_INMR06 == << 73, 78, 77, 82, 48, 54 >>

\* str.isspace() and str.isnumeric() on the code points cp1140 can produce.
WhiteSpace == { 9, 10, 11, 12, 13, 28, 29, 30, 31, 32, 133, 160 }

Numeric == (48..57) \cup { 178, 179, 185, 188, 189, 190 }

isnumeric(s) == s # << >> /\ \A i \in 1..Len(s) : s[i] \in Numeric

RECURSIVE rstrip(_)
rstrip(s) ==
  IF s # << >> /\ s[Len(s)] \in WhiteSpace
  THEN rstrip(SubSeq(s, 1, Len(s) - 1))
  ELSE s

NEWLINE == << 10 >>

\* ----------------------------------------------------------------- state
VARIABLES
  xmit,          \* self.xmit
  tape,          \* self.tape
  msg,           \* self.msg
  force,         \* self.force
  binary,        \* self.binary
  unnum,         \* self.unnum
  INMR02_count,  \* self.INMR02_count
  INMR03_count,  \* self.INMR03_count
  filelocation,  \* self.filelocation
  file_object,   \* self.file_object
  xmit_object,   \* self.xmit_object
  tape_object,   \* self.tape_object
  pc,            \* where the running call stands
  loc,           \* the read offset of the loop that is running
  member_blocks, \* process_blocks: the member data it was handed
  pb,            \* process_blocks: its other locals, and for each member
                 \* stored the blocks the loop gave it (declared, blocks)
  px,            \* parse_xmi: its locals
  lastOp,        \* the facade call made last
  result,        \* the outcome of the call made last
  runs,          \* which run of go() this is, the bytes the next run is
                 \* given, and what the run before left
  gui            \* the window of xmission.py: its fields, its threads and
                 \* the callbacks its main loop has yet to run

vars == << xmit, tape, msg, force, binary, unnum, gui, INMR02_count, INMR03_count,
           filelocation, file_object, xmit_object, tape_object, pc, loc,
           member_blocks, pb, px, lastOp, result, runs >>

\* The fields of the object that the member decoder and the readers of
\* members leave alone, and the run counter.
objectVars == << msg, force, binary, unnum, gui, INMR02_count, INMR03_count,
                 filelocation, file_object, xmit_object, tape_object, runs >>

\* ----------------------------------------------------- ordered dictionaries
\* A dict whose insertion order the code depends on: a sequence of [k, v].
ODKeys(d) == [i \in 1..Len(d) |-> d[i].k]

ODHas(d, key) == \E i \in 1..Len(d) : d[i].k = key

ODGet(d, key) == d[CHOOSE i \in 1..Len(d) : d[i].k = key].v

ODSet(d, key, val) ==
  IF ODHas(d, key)
  THEN [i \in 1..Len(d) |-> IF d[i].k = key THEN [k |-> key, v |-> val] ELSE d[i]]
  ELSE Append(d, [k |-> key, v |-> val])

\* d[key] = val on a plain dict.
DictSet(d, key, val) == (key :> val) @@ d

Has(d, key) == key \in DOMAIN d

RECURSIVE SortedSeq(_)
SortedSeq(S) ==
  IF S = {} THEN << >>
  ELSE LET m == CHOOSE x \in S : \A y \in S : x <= y
       IN  << m >> \o SortedSeq(S \ {m})

Ok(v) == [kind |-> "ok", val |-> v]

Raise(e) == [kind |-> "raise", val |-> e]

\* The exception out, as it leaves the function named.
RaisedIn(where, out) == [kind |-> "raise", val |-> out.val, where |-> where]

\* The first run of go(), with the bytes a second run would be given.
FirstRun(second) ==
  [n |-> 1, how |-> "first", second |-> second, first |-> << >>,
   xmit |-> EmptyDict, tape |-> EmptyDict, result |-> Ok("None"), pc |-> "go"]

\* ------------------------------------------------------ content classifier
\* magic.Magic(mime_encoding=True, mime=True).from_buffer(data), split at
\* '; ' and 'charset=': libmagic is outside the repository, and stands here
\* as the signature table the classifier needs: nothing, EBCDIC text
\* (every byte a printable EBCDIC code), anything else.
from_buffer(data) ==
  IF data = << >>
  THEN [filetype |-> "application/x-empty", datatype |-> "binary"]
  ELSE IF \A i \in 1..Len(data) : data[i] >= 64 /\ data[i] < 255
  THEN [filetype |-> "text/plain", datatype |-> "ebcdic"]
  ELSE [filetype |-> "application/octet-stream", datatype |-> "binary"]

\* mimetypes.guess_extension(filetype), and "." + filetype.split("/")[1]
\* where it knows none.
guess_extension(filetype) ==
  CASE filetype = "text/plain" -> ".txt"
    [] filetype = "application/octet-stream" -> ".bin"
    [] filetype = "application/x-empty" -> ".x-empty"
    [] OTHER -> ".unknown"

RECURSIVE convert_lines(_, _, _, _)
convert_lines(asciifile, recl, i, un) ==
  IF i >= Len(asciifile) THEN << >>
  ELSE LET line == IF isnumeric(PySlice(asciifile, i + recl - 8, i + recl)) /\ un
                   THEN rstrip(PySlice(asciifile, i, i + recl - 8))
                   ELSE rstrip(PySlice(asciifile, i, i + recl))
       IN  << line >> \o convert_lines(asciifile, recl, i + recl, un)

RECURSIVE JoinLines(_)
JoinLines(lines) ==
  IF lines = << >> THEN << >>
  ELSE IF Len(lines) = 1 THEN lines[1]
  ELSE lines[1] \o NEWLINE \o JoinLines(Tail(lines))

convert_text_file(ebcdic_text, recl, un) ==
  LET asciifile == decode(ebcdic_text)
  IN  IF recl < 1 THEN asciifile \o NEWLINE
      ELSE JoinLines(convert_lines(asciifile, recl, 0, un)) \o NEWLINE

\* The text of a RECFM V payload: each record converted on its own.
RECURSIVE vb_text(_, _)
vb_text(records, un) ==
  IF records = << >> THEN << >>
  ELSE rstrip(convert_text_file(records[1], Len(records[1]), un)) \o NEWLINE
       \o vb_text(Tail(records), un)

get_recfm(recfm) ==
  LET flag == recfm[1]
      base == CASE (flag \div 64) % 4 = 1 -> << "V" >>
                [] (flag \div 64) % 4 = 2 -> << "F" >>
                [] (flag \div 64) % 4 = 3 -> << "U" >>
                [] OTHER -> << "?" >>
  IN  base \o (IF (flag \div 16) % 2 = 1 THEN << "B" >> ELSE << >>)
           \o (IF (flag \div 4) % 2 = 1 THEN << "A" >> ELSE << >>)
           \o (IF (flag \div 2) % 2 = 1 THEN << "M" >> ELSE << >>)
           \o (IF (flag \div 8) % 2 = 1 THEN << "S" >> ELSE << >>)

\* 'V' in recfm
InStr(c, s) == \E i \in 1..Len(s) : s[i] = c

\* A handle_vb that would keep the block as it is, descriptor words
\* included: the decoder that C3's length bound tells apart from the code.
handle_vb_whole(vbdata) == << vbdata >>

RECURSIVE handle_vb_from(_, _, _)
handle_vb_from(vbdata, at, lrecl) ==
  IF at < Len(vbdata) /\ lrecl > 0
  THEN LET l == get_int(PySlice(vbdata, at, at + 2))
       IN  << PySlice(vbdata, at + 4, at + l) >> \o handle_vb_from(vbdata, at + l, l)
  ELSE << >>

handle_vb(vbdata) == handle_vb_from(vbdata, 4, 10)

\* ------------------------------------------------ the archive being built
has_xmi_model == DOMAIN xmit # {}

has_tape_model == DOMAIN tape # {}

\* The files dict the facade and the decoders work on.
Files == IF has_xmi_model THEN xmit["file"] ELSE tape["file"]

\* ------------------------------------------------- IEBCOPY member decoder
\* None, where a member name is expected.
NONE == << 0 - 1 >>

\* The locals of process_blocks before it is entered; the dataset it is
\* handed (of self.xmit or of self.tape), where it returns to, and the
\* members of the directory as it was handed them.
NoBlocks ==
  [ttr_location |-> 0, member_data |-> << >>, vb_member_data |-> << >>,
   deleted_num |-> 1, prev_ttr |-> 0, record_closed |-> FALSE,
   ttrs |-> EmptyDict, sorted_ttrs |-> << >>, member_name |-> NONE,
   declared |-> << >>, blocks |-> << >>, attributed |-> EmptyDict, dsn |-> << >>,
   of |-> "xmit", ret |-> "parsed", directory |-> << >>]

\* The name of the one dataset of the archives decoded below ('PDS').
PDSNAME == << 80, 68, 83 >>

\* The dataset process_blocks was handed: the dict is shared with the
\* archive, so every store into it shows in self.xmit / self.tape at once.
Dsn == ODGet(IF pb.of = "xmit" THEN xmit["file"] ELSE tape["file"], pb.dsn)

\* "DELETED{}".format(n), for the n the bounds allow.
DeletedName(n) == << 68, 69, 76, 69, 84, 69, 68 >> \o << 48 + n >>

\* The key "??{}".format(n) of ttrs and sorted_ttrs: kept apart from the
\* directory's TTRs, which are naturals, as the negative -n.
DeletedKey(n) == 0 - n

\* A TTR table that would take in the aliases nothing else has the TTR of
\* and leave their alias flag set: the table that C12's formula tells
\* apart from the code's.
BuildTtrs_flagged(members) ==
  LET lastOf(t) == LET J == { i \in 1..Len(members) : members[i].v["ttr"] = t }
                   IN  members[CHOOSE i \in J : \A j \in J : j <= i].k
      ttrs == [t \in { members[i].v["ttr"] : i \in 1..Len(members) } |-> lastOf(t)]
  IN  [ttrs |-> ttrs, sorted_ttrs |-> SortedSeq(DOMAIN ttrs), members |-> members]

\* lines 1884-1907: the TTR table, the aliases that point at each other,
\* and the sorted TTRs.
BuildTtrs(members) ==
  LET idx(P(_)) == { i \in 1..Len(members) : P(members[i].v) }
      lastOf(S, t) == LET J == { i \in S : members[i].v["ttr"] = t }
                     IN  members[CHOOSE i \in J : \A j \in J : j <= i].k
      aliasIdx == idx(LAMBDA m : m["alias"])
      plainIdx == idx(LAMBDA m : ~m["alias"])
      aliasTtrs == { members[i].v["ttr"] : i \in aliasIdx }
      plainTtrs == { members[i].v["ttr"] : i \in plainIdx }
      aliases == [t \in aliasTtrs |-> lastOf(aliasIdx, t)]
      ttrs0 == [t \in plainTtrs |-> lastOf(plainIdx, t)]
      promoted == { aliases[t] : t \in aliasTtrs \ plainTtrs }
      ttrs == [t \in aliasTtrs \cup plainTtrs |->
                 IF t \in plainTtrs THEN ttrs0[t] ELSE aliases[t]]
  IN  [ttrs |-> ttrs,
       sorted_ttrs |-> SortedSeq(DOMAIN ttrs),
       members |-> [i \in 1..Len(members) |->
                      IF members[i].k \in promoted
                      THEN [k |-> members[i].k,
                            v |-> [members[i].v EXCEPT !["alias"] = FALSE]]
                      ELSE members[i]]]

\* lines 1973-2006 and 2018-2051: classify a finished payload and store it.
StoreMember(m, member_data, vb_member_data, recfm, lrecl) ==
  LET mg == from_buffer(member_data)
      isxmi == /\ mg.filetype = "application/octet-stream"
               /\ Len(member_data) >= 8
               /\ decode(PySlice(member_data, 2, 8)) = STR_INMR01
      filetype == IF isxmi THEN "application/xmit" ELSE mg.filetype
      extention == IF isxmi THEN ".xmi"
                   ELSE IF force THEN ".txt"
                   ELSE guess_extension(mg.filetype)
      astext == filetype = "text/plain" \/ mg.datatype # "binary" \/ force
      text == IF InStr("V", recfm)
              THEN vb_text(vb_member_data, unnum)
              ELSE convert_text_file(member_data, lrecl, unnum)
      m1 == IF astext THEN DictSet(m, "text", text) ELSE m
  IN  DictSet(DictSet(DictSet(DictSet(m1, "mimetype", filetype),
        "datatype", mg.datatype), "extension", extention), "data", member_data)

\* A process_blocks that would pass over no block after the end of a
\* group: the reading that C31's count of the groups tells apart from
\* the code.
SkipDup_none(at, prev_ttr) == at

RECURSIVE SkipDup(_, _)
\* lines 1919-1924: PDSE, after a member was closed: skip to the next TTR.
SkipDup(at, prev_ttr) ==
  IF get_int(PySlice(member_blocks, at + 6, at + 9)) # prev_ttr THEN at
  ELSE SkipDup(at + get_int(PySlice(member_blocks, at + 10, at + 12)) + 12, prev_ttr)

SetDsn(d) ==
  IF pb.of = "xmit"
  THEN /\ xmit' = [xmit EXCEPT !["file"] = ODSet(@, pb.dsn, d)]
       /\ tape' = tape
  ELSE /\ tape' = [tape EXCEPT !["file"] = ODSet(@, pb.dsn, d)]
       /\ xmit' = xmit

\* process_blocks, lines 1865-1907: the locals, the TTR table.
PB_BuildTtrs ==
  /\ pc = "process_blocks"
  /\ LET b == BuildTtrs(Dsn["members"])
     IN  /\ pb' = [NoBlocks EXCEPT !.dsn = pb.dsn, !.of = pb.of, !.ret = pb.ret,
                                    !.ttrs = b.ttrs, !.sorted_ttrs = b.sorted_ttrs,
                                    !.directory = Dsn["members"]]
         /\ SetDsn([Dsn EXCEPT !["members"] = b.members])
  /\ pc' = "pb_loop"
  /\ loc' = 0
  /\ UNCHANGED << objectVars, member_blocks, px, lastOp, result >>

\* process_blocks, lines 1909-2013: one turn of the loop over the blocks.
PB_Block ==
  /\ pc = "pb_loop"
  /\ loc < Len(member_blocks)
  /\ LET dsn == Dsn
         recfm == dsn["COPYR1"]["DS1RECFM"]
         lrecl == dsn["COPYR1"]["DS1LRECL"]
         pdse == dsn["COPYR1"]["type"] = "PDSE"
         skip == pdse /\ pb.record_closed
         at == IF skip THEN SkipDup(loc, pb.prev_ttr) ELSE loc
         member_data_len == get_int(PySlice(member_blocks, at + 10, at + 12))
         member_ttr == get_int(PySlice(member_blocks, at + 6, at + 9))
         closed1 == IF skip THEN FALSE ELSE pb.record_closed
         extra == pb.ttr_location + 1 > Len(pb.sorted_ttrs)
         sorted1 == IF extra THEN Append(pb.sorted_ttrs, DeletedKey(pb.deleted_num))
                    ELSE pb.sorted_ttrs
         ttrs1 == IF extra
                  THEN DictSet(pb.ttrs, DeletedKey(pb.deleted_num), DeletedName(pb.deleted_num))
                  ELSE pb.ttrs
         members1 == IF extra
                     THEN ODSet(dsn["members"], DeletedName(pb.deleted_num), [alias |-> FALSE])
                     ELSE dsn["members"]
         \* the entry of a DELETED member is new: nothing is stored for it
         attributed1 == IF extra
                        THEN [n \in DOMAIN pb.attributed \ { DeletedName(pb.deleted_num) }
                                |-> pb.attributed[n]]
                        ELSE pb.attributed
         member_name == ttrs1[sorted1[pb.ttr_location + 1]]
         block == PySlice(member_blocks, at + 12, at + 12 + member_data_len)
         vb1 == IF InStr("V", recfm) THEN pb.vb_member_data \o handle_vb(block)
                ELSE pb.vb_member_data
         data1 == IF InStr("V", recfm) THEN Join(vb1) ELSE pb.member_data \o block
         declared1 == Append(pb.declared, member_data_len)
         blocks1 == Append(pb.blocks, block)
         members2 == IF member_data_len = 0
                     THEN ODSet(members1, member_name,
                                StoreMember(ODGet(members1, member_name),
                                            data1, vb1, recfm, lrecl))
                     ELSE members1
     IN  IF member_ttr = 0 /\ member_data_len = 0
         THEN \* skip empty entries
              /\ loc' = at + 12
              /\ pb' = [pb EXCEPT !.record_closed = closed1]
              /\ UNCHANGED << xmit, tape, pc, result >>
         ELSE IF at + 9 >= Len(member_blocks)
         THEN \* member_blocks[loc + 1] or [loc + 9]: IndexError
              /\ pc' = "raised"
              /\ result' = RaisedIn("process_blocks", Raise("IndexError"))
              /\ pb' = [pb EXCEPT !.record_closed = closed1]
              /\ UNCHANGED << xmit, tape, loc >>
         ELSE /\ loc' = at + member_data_len + 12
              /\ SetDsn([dsn EXCEPT !["members"] = members2])
              /\ pb' = [pb EXCEPT
                   !.sorted_ttrs = sorted1,
                   !.ttrs = ttrs1,
                   !.deleted_num = IF extra THEN @ + 1 ELSE @,
                   !.member_name = member_name,
                   !.record_closed = IF member_data_len = 0 /\ pdse THEN TRUE ELSE closed1,
                   !.member_data = IF member_data_len = 0 THEN << >> ELSE data1,
                   !.vb_member_data = IF member_data_len = 0 THEN << >> ELSE vb1,
                   !.declared = IF member_data_len = 0 THEN << >> ELSE declared1,
                   !.blocks = IF member_data_len = 0 THEN << >> ELSE blocks1,
                   !.attributed = IF member_data_len = 0
                                  THEN DictSet(attributed1, member_name,
                                               [declared |-> declared1, blocks |-> blocks1])
                                  ELSE attributed1,
                   !.ttr_location = IF member_data_len = 0 THEN @ + 1 ELSE @,
                   !.prev_ttr = IF member_data_len = 0 THEN member_ttr ELSE @]
              /\ UNCHANGED << pc, result >>
  /\ UNCHANGED << objectVars, member_blocks, px, lastOp >>

\* process_blocks, lines 2015-2055: the trailing payload, and the return.
PB_Trailing ==
  /\ pc = "pb_loop"
  /\ loc >= Len(member_blocks)
  /\ LET dsn == Dsn
         stored == ODSet(dsn["members"], pb.member_name,
                         StoreMember(ODGet(dsn["members"], pb.member_name),
                                     pb.member_data, pb.vb_member_data,
                                     dsn["COPYR1"]["DS1RECFM"], dsn["COPYR1"]["DS1LRECL"]))
     IN  IF Len(pb.member_data) > 0
         THEN /\ SetDsn([dsn EXCEPT !["members"] = stored])
              /\ pb' = [pb EXCEPT !.attributed =
                         DictSet(@, pb.member_name,
                                 [declared |-> pb.declared, blocks |-> pb.blocks])]
         ELSE UNCHANGED << xmit, tape, pb >>
  /\ pc' = pb.ret
  /\ result' = Ok("None")
  /\ UNCHANGED << objectVars, loc, member_blocks, px, lastOp >>

\* -------------------------------------------------------------- the facade
\* check_parsed, lines 1110-1114.
check_parsed ==
  IF DOMAIN xmit = {} /\ DOMAIN tape = {}
  THEN Raise("No XMI or Virtual Tape loaded.")
  ELSE IF DOMAIN xmit # {} /\ ~Has(xmit, "INMR01")
  THEN Raise("No INMR01 in XMI file, has it been parsed yet?")
  ELSE Ok("None")

Members(pds) == ODGet(Files, pds)["members"]

is_alias(pds, member) == ODGet(Members(pds), member)["alias"]

\* get_alias, lines 719-734: the first member, in directory order, that is
\* no alias and has the alias's TTR.
get_alias(pds, member) ==
  LET members == Members(pds)
      alias_ttr == ODGet(members, member)["ttr"]
      hits == { i \in 1..Len(members) :
                  /\ Has(members[i].v, "ttr")
                  /\ ~members[i].v["alias"]
                  /\ members[i].v["ttr"] = alias_ttr }
  IN  IF hits = {} THEN NONE
      ELSE members[CHOOSE i \in hits : \A j \in hits : i <= j].k

\* The member whose entry get_member_decoded reads, lines 587-588.
decoded_member(pds, member) ==
  IF is_alias(pds, member) THEN get_alias(pds, member) ELSE member

\* get_member_decoded, lines 580-600.
get_member_decoded(pds, member) ==
  LET m == decoded_member(pds, member)
  IN  IF check_parsed.kind = "raise" THEN check_parsed
      ELSE IF ~ODHas(Members(pds), m) THEN Raise("KeyError")
      ELSE LET rfile == ODGet(Members(pds), m)
           IN  IF Has(rfile, "text") THEN Ok(rfile["text"])
               ELSE IF Has(rfile, "data") THEN Ok(rfile["data"])
               ELSE Ok(<< >>)

\* The member whose entry get_member_binary reads, lines 605 and 607.
binary_member(pds, member) == member

\* get_member_binary, lines 602-607.
get_member_binary(pds, member) ==
  LET data_of(files) ==
        LET rfile == ODGet(ODGet(files, pds)["members"], binary_member(pds, member))
        IN  IF Has(rfile, "data") THEN Ok(rfile["data"]) ELSE Raise("KeyError")
  IN  IF check_parsed.kind = "raise" THEN check_parsed
      ELSE IF has_xmi_model /\ ODHas(xmit["file"], pds) THEN data_of(xmit["file"])
      ELSE IF has_tape_model /\ ODHas(tape["file"], pds) THEN data_of(tape["file"])
      ELSE Ok("None")

\* The member whose entry get_member_text reads, lines 611-617.
text_member(pds, member) ==
  IF force THEN decoded_member(pds, member) ELSE member

\* A fallback that would refuse a member without text: the reader that
\* C10's formula tells apart from the code.
text_fallback_refuse(pds, member) == Raise("NotText")

\* What get_member_text returns for a member that holds no text, line 621:
\* the data of the member under self.xmit, decoded.
text_fallback(pds, member) ==
  IF ~Has(xmit, "file") THEN Raise("KeyError")
  ELSE LET f == ODGet(xmit["file"], pds)["members"]
       IN  IF Has(ODGet(f, member), "data")
           THEN Ok(decode(ODGet(f, member)["data"]))
           ELSE Raise("KeyError")

\* get_member_text, lines 609-621.
get_member_text(pds, member) ==
  IF check_parsed.kind = "raise" THEN check_parsed
  ELSE IF force THEN get_member_decoded(pds, member)
  ELSE LET f == ODGet(Members(pds), text_member(pds, member))
       IN  IF Has(f, "text") THEN Ok(f["text"])
           ELSE text_fallback(pds, member)

\* The member whose entry get_member_info reads, lines 431-435.
info_member(pds, member) ==
  IF is_alias(pds, member) THEN get_alias(pds, member) ELSE member

\* get_member_info, lines 411-456.
get_member_info(pds, member) ==
  LET m == info_member(pds, member)
      f == ODGet(Members(pds), m)
      copyr1 == ODGet(Files, pds)["COPYR1"]
      i0 == IF is_alias(pds, member) THEN ("alias" :> m) ELSE EmptyDict
      i1 == IF Has(f, "mimetype") THEN DictSet(i0, "mimetype", f["mimetype"]) ELSE i0
      i2 == IF Has(f, "extension") THEN DictSet(i1, "extension", f["extension"]) ELSE i1
      i3 == IF DOMAIN f["ispf"] # {}
            THEN ("modified" :> f["ispf"]["modifydate"]) @@ ("owner" :> f["ispf"]["user"])
                 @@ ("version" :> f["ispf"]["version"])
                 @@ ("created" :> f["ispf"]["createdate"]) @@ i2
            ELSE i2
      i4 == DictSet(DictSet(i3, "RECFM", copyr1["DS1RECFM"]), "LRECL", copyr1["DS1LRECL"])
      size == IF Has(f, "text") /\ ~binary THEN Len(f["text"])
              ELSE IF Has(f, "data") THEN Len(f["data"])
              ELSE 0
  IN  IF check_parsed.kind = "raise" THEN check_parsed
      ELSE IF ~Has(ODGet(Files, pds), "members") THEN Raise("No members in pds")
      ELSE IF ~ODHas(Members(pds), member) THEN Raise("Member not found in pds")
      ELSE IF m = NONE THEN Raise("Member Alias target not found")
      ELSE IF ~Has(f, "ispf") THEN Raise("KeyError")
      ELSE Ok(DictSet(i4, "size", size))

\* get_member_info_simple, lines 458-496: an alias is reported as a link
\* of size 0.
get_member_info_simple(pds, member) ==
  LET m == info_member(pds, member)
      f == ODGet(Members(pds), m)
      a0 == ("alias" :> m) @@ ("mimetype" :> "alias/symlink") @@ ("size" :> 0)
      i0 == IF Has(f, "mimetype") THEN ("mimetype" :> f["mimetype"]) ELSE EmptyDict
      i1 == IF Has(f, "extension") THEN DictSet(i0, "extension", f["extension"]) ELSE i0
      i2 == IF DOMAIN f["ispf"] # {}
            THEN ("modified" :> f["ispf"]["modifydate"]) @@ ("owner" :> f["ispf"]["user"]) @@ i1
            ELSE i1
      size == IF Has(f, "text") /\ ~binary THEN Len(f["text"])
              ELSE IF Has(f, "data") THEN Len(f["data"])
              ELSE 0
  IN  IF check_parsed.kind = "raise" THEN check_parsed
      ELSE IF ~ODHas(Members(pds), member) THEN Raise("KeyError")
      ELSE IF m = NONE THEN Raise("Member Alias target not found")
      ELSE IF is_alias(pds, member)
      THEN Ok(IF Has(f, "extension") THEN DictSet(a0, "extension", f["extension"]) ELSE a0)
      ELSE IF ~Has(f, "ispf") THEN Raise("KeyError")
      ELSE Ok(DictSet(i2, "size", size))

\* get_member_size, lines 576-578: the length of what get_member_decoded
\* returns.
get_member_size(pds, member) ==
  IF check_parsed.kind = "raise" THEN check_parsed
  ELSE IF get_member_decoded(pds, member).kind = "raise"
  THEN get_member_decoded(pds, member)
  ELSE Ok(Len(get_member_decoded(pds, member).val))

\* ------------------------------------------------------------ text units
\* The values of a text unit dict: a str as its code points, an int, a
\* bytes object, and the strs get_dsorg and get_recfm put in their place.
Str(s) == [t |-> "str", v |-> s]

Num(n) == [t |-> "int", v |-> n]

Bytes(b) == [t |-> "bytes", v |-> b]

Dsorg(org) == [t |-> "dsorg", v |-> org]

Recfm(rfm) == [t |-> "recfm", v |-> rfm]

\* text_units, lines 2120-2135: the data set type in words.  0x80 and 0x40
\* are the two values the chain of tests can tell; the rest is 'None'.
Inmtype(value) ==
  [t |-> "inmtype",
   v |-> IF value = 128 THEN "Data Library"
         ELSE IF value = 64 THEN "Program Library"
         ELSE "None"]

\* text_keys, lines 70-99: key -> name and type.
text_keys ==
  (1 :> [name |-> "INMDDNAM", type |-> "character"])
  @@ (2 :> [name |-> "INMDSNAM", type |-> "character"])
  @@ (3 :> [name |-> "INMMEMBR", type |-> "character"])
  @@ (11 :> [name |-> "INMSECND", type |-> "decimal"])
  @@ (12 :> [name |-> "INMDIR", type |-> "decimal"])
  @@ (34 :> [name |-> "INMEXPDT", type |-> "character"])
  @@ (40 :> [name |-> "INMTERM", type |-> "character"])
  @@ (48 :> [name |-> "INMBLKSZ", type |-> "decimal"])
  @@ (60 :> [name |-> "INMDSORG", type |-> "hex"])
  @@ (66 :> [name |-> "INMLRECL", type |-> "decimal"])
  @@ (73 :> [name |-> "INMRECFM", type |-> "hex"])
  @@ (4097 :> [name |-> "INMTNODE", type |-> "character"])
  @@ (4098 :> [name |-> "INMTUID", type |-> "character"])
  @@ (4113 :> [name |-> "INMFNODE", type |-> "character"])
  @@ (4114 :> [name |-> "INMFUID", type |-> "character"])
  @@ (4128 :> [name |-> "INMLREF", type |-> "character"])
  @@ (4129 :> [name |-> "INMLCHG", type |-> "character"])
  @@ (4130 :> [name |-> "INMCREAT", type |-> "character"])
  @@ (4131 :> [name |-> "INMFVERS", type |-> "character"])
  @@ (4132 :> [name |-> "INMFTIME", type |-> "character"])
  @@ (4133 :> [name |-> "INMTTIME", type |-> "character"])
  @@ (4134 :> [name |-> "INMFACK", type |-> "character"])
  @@ (4135 :> [name |-> "INMERRCD", type |-> "character"])
  @@ (4136 :> [name |-> "INMUTILN", type |-> "character"])
  @@ (4137 :> [name |-> "INMUSERP", type |-> "character"])
  @@ (4138 :> [name |-> "INMRECCT", type |-> "character"])
  @@ (4140 :> [name |-> "INMSIZE", type |-> "decimal"])
  @@ (4143 :> [name |-> "INMNUMF", type |-> "decimal"])
  @@ (32786 :> [name |-> "INMTYPE", type |-> "hex"])

KEY_INMFACK == 4134

KEY_INMTERM == 40

\* The code point of '.'.
DOT == 46

\* text_units, lines 2102-2157: the items i .. num-1 of one text unit.
RECURSIVE tu_items(_, _, _, _, _, _, _)
tu_items(text_records, key, num, i, at, tu, INMDSNAM) ==
  IF i >= num THEN [loc |-> at, tu |-> tu, INMDSNAM |-> INMDSNAM]
  ELSE LET tlen == IF i = 0 THEN get_int(PySlice(text_records, at + 4, at + 6))
                   ELSE get_int(PySlice(text_records, at, at + 2))
           item == IF i = 0 THEN PySlice(text_records, at + 6, at + 6 + tlen)
                   ELSE PySlice(text_records, at + 2, at + 2 + tlen)
           known == key \in DOMAIN text_keys
           dsnam1 == IF known /\ text_keys[key].name = "INMDSNAM"
                     THEN INMDSNAM \o decode(item) \o << DOT >>
                     ELSE INMDSNAM
           value == IF dsnam1 # << >> THEN Str(PySlice(dsnam1, 0, 0 - 1))
                    ELSE IF text_keys[key].type = "character" THEN Str(decode(item))
                    ELSE IF text_keys[key].type = "decimal" THEN Num(get_int(item))
                    ELSE IF text_keys[key].name = "INMTYPE" THEN Inmtype(get_int(item))
                    ELSE Bytes(item)
           tu1 == IF known THEN DictSet(tu, text_keys[key].name, value) ELSE tu
       IN  tu_items(text_records, key, num, i + 1,
                    IF i = 0 THEN at + 6 + tlen ELSE at + 2 + tlen, tu1, dsnam1)

\* text_units is entered, lines 2078-2084: px holds its locals and the
\* record parser it returns to.
CallTextUnits(text_records, ret) ==
  [px EXCEPT !.text_records = text_records, !.tu_loc = 0, !.tu = EmptyDict,
             !.INMDSNAM = << >>, !.ret = ret]

\* text_units, lines 2087-2157: the text unit at the offset is read, its
\* items one after the other; a unit INMFACK or INMTERM without items is
\* stepped over first.
UnitAt(recs, at) ==
  tu_items(recs, get_int(PySlice(recs, at, at + 2)), get_int(PySlice(recs, at + 2, at + 4)), 0,
           IF /\ get_int(PySlice(recs, at, at + 2)) \in { KEY_INMFACK, KEY_INMTERM }
              /\ get_int(PySlice(recs, at + 2, at + 4)) = 0
           THEN at + 4 ELSE at,
           px.tu, px.INMDSNAM)

\* text_units, lines 2085-2157: one turn of the loop over the text units.
TU_Unit ==
  /\ pc = "text_units"
  /\ px.tu_loc < Len(px.text_records)
  /\ LET recs == px.text_records
         at == px.tu_loc
         short == Len(PySlice(recs, at, at + 2)) # 2 \/ Len(PySlice(recs, at + 2, at + 4)) # 2
         key == get_int(PySlice(recs, at, at + 2))
         num == get_int(PySlice(recs, at + 2, at + 4))
         r == UnitAt(recs, at)
     IN  IF short
         THEN \* struct.unpack('>H', ...) of fewer than two bytes
              /\ pc' = "raised"
              /\ result' = RaisedIn("text_units", Raise("struct.error"))
              /\ UNCHANGED << px, msg >>
         ELSE /\ px' = [px EXCEPT !.tu_loc = r.loc, !.tu = r.tu, !.INMDSNAM = r.INMDSNAM]
              /\ msg' = IF key = KEY_INMTERM /\ num = 0 THEN TRUE ELSE msg
              /\ UNCHANGED << pc, result >>
  /\ UNCHANGED << xmit, tape, force, binary, unnum, gui, INMR02_count, INMR03_count,
                  filelocation, file_object, xmit_object, tape_object, loc,
                  member_blocks, pb, lastOp, runs >>

\* ------------------------------------------------------- the XMIT parser
Bit(n, b) == (n \div b) % 2 = 1

\* get_dsorg with the first of the tests that matches deciding, not the
\* last.
get_dsorg_first(dsorg) ==
  LET file_dsorg == IF dsorg.t = "bytes" THEN get_int(dsorg.v) ELSE dsorg.v
      org == IF Bit(file_dsorg, 32768) THEN "ISAM"
             ELSE IF Bit(file_dsorg, 16384) THEN "PS"
             ELSE IF Bit(file_dsorg, 8192) THEN "DA"
             ELSE IF Bit(file_dsorg, 4096) THEN "BTAM"
             ELSE IF Bit(file_dsorg, 512) THEN "PO"
             ELSE "?"
  IN  IF dsorg.t \notin { "bytes", "int" } THEN Raise("TypeError")
      ELSE Ok(Dsorg(IF Bit(file_dsorg, 1) THEN org \o "U" ELSE org))

\* get_dsorg, lines 1059-1080, on the value of a text unit: int.from_bytes
\* of a str is the TypeError the code catches, and the bit tests on the str
\* that is left are the TypeError it does not.
get_dsorg(dsorg) ==
  LET file_dsorg == IF dsorg.t = "bytes" THEN get_int(dsorg.v) ELSE dsorg.v
      org == IF Bit(file_dsorg, 512) THEN "PO"
             ELSE IF Bit(file_dsorg, 4096) THEN "BTAM"
             ELSE IF Bit(file_dsorg, 8192) THEN "DA"
             ELSE IF Bit(file_dsorg, 16384) THEN "PS"
             ELSE IF Bit(file_dsorg, 32768) THEN "ISAM"
             ELSE "?"
  IN  IF dsorg.t \notin { "bytes", "int" } THEN Raise("TypeError")
      ELSE Ok(Dsorg(IF Bit(file_dsorg, 1) THEN org \o "U" ELSE org))

\* get_recfm on the value of a text unit: recfm[0] of nothing is an
\* IndexError, and the bit tests on a character of a str a TypeError.
get_recfm_value(recfm) ==
  IF recfm.t = "int" THEN Raise("TypeError")
  ELSE IF recfm.v = << >> THEN Raise("IndexError")
  ELSE IF recfm.t # "bytes" THEN Raise("TypeError")
  ELSE Ok(Recfm(get_recfm(recfm.v)))

IsDigits(s) == \A i \in 1..Len(s) : s[i] \in 48..57

\* int(s) of a str of decimal digits.
RECURSIVE ToInt(_)
ToInt(s) == IF s = << >> THEN 0 ELSE ToInt(SubSeq(s, 1, Len(s) - 1)) * 10 + (s[Len(s)] - 48)

IsLeap(y) == (y % 4 = 0 /\ y % 100 # 0) \/ y % 400 = 0

DaysIn(y, m) ==
  IF m = 2 THEN (IF IsLeap(y) THEN 29 ELSE 28)
  ELSE IF m \in { 4, 6, 9, 11 } THEN 30 ELSE 31

\* parse_INMR01, lines 1339-1343: INMFTIME filled with '0' to 20 characters,
\* read by strptime as '%Y%m%d%H%M%S%f' and written in ISO format.  Twenty
\* digits leave strptime one way to split them; anything else it refuses.
inmftime_iso(value) ==
  LET t == value.v \o [i \in 1..(20 - Len(value.v)) |-> 48]
      f(a, b) == ToInt(SubSeq(t, a, b))
      valid == /\ Len(t) = 20
               /\ IsDigits(t)
               /\ f(1, 4) >= 1
               /\ f(5, 6) \in 1..12
               /\ f(7, 8) \in 1..DaysIn(f(1, 4), f(5, 6))
               /\ f(9, 10) <= 23
               /\ f(11, 12) <= 59
               /\ f(13, 14) <= 59
  IN  IF value.t # "str" THEN Raise("TypeError")
      ELSE IF ~valid THEN Raise("ValueError")
      ELSE Ok(Str(SubSeq(t, 1, 4) \o << 45 >> \o SubSeq(t, 5, 6) \o << 45 >>
                  \o SubSeq(t, 7, 8) \o << 84 >> \o SubSeq(t, 9, 10) \o << 58 >>
                  \o SubSeq(t, 11, 12) \o << 58 >> \o SubSeq(t, 13, 14) \o << 46 >>
                  \o SubSeq(t, 15, 20)))

\* parse_INMR02 and parse_INMR03 after text_units has returned, lines
\* 1351-1354 and 1361-1363: the text units are stored under the count, and
\* INMDSORG and INMRECFM are put in words.
StoreHeader(name, count, tu, more) ==
  LET stored == [xmit EXCEPT ![name] = DictSet(@, count, tu)]
      dsorg == get_dsorg(tu["INMDSORG"])
      tu1 == DictSet(tu, "INMDSORG", dsorg.val)
      recfm == get_recfm_value(tu["INMRECFM"])
      tu2 == DictSet(tu1, "INMRECFM", recfm.val) @@ more
  IN  IF ~Has(tu, "INMDSORG") THEN [xmit |-> stored, out |-> Raise("KeyError")]
      ELSE IF dsorg.kind = "raise" THEN [xmit |-> stored, out |-> dsorg]
      ELSE IF ~Has(tu, "INMRECFM")
      THEN [xmit |-> [xmit EXCEPT ![name] = DictSet(@, count, tu1)], out |-> Raise("KeyError")]
      ELSE IF recfm.kind = "raise"
      THEN [xmit |-> [xmit EXCEPT ![name] = DictSet(@, count, tu1)], out |-> recfm]
      ELSE [xmit |-> [xmit EXCEPT ![name] = DictSet(@, count, tu2)], out |-> Ok("None")]

\* text_units returns, line 2159, into parse_INMR01, parse_INMR02 or
\* parse_INMR03, and that into the loop of parse_xmi, which steps over the
\* segment (line 1244).
TU_Return ==
  /\ pc = "text_units"
  /\ px.tu_loc >= Len(px.text_records)
  /\ LET section_length == get_int(PySlice(xmit_object, loc, loc + 1))
         iso == inmftime_iso(px.tu["INMFTIME"])
         r == CASE px.ret = "INMR01" ->
                     IF ~Has(px.tu, "INMFTIME")
                     THEN [xmit |-> DictSet(xmit, "INMR01", px.tu), out |-> Ok("None")]
                     ELSE IF iso.kind = "raise"
                     THEN [xmit |-> DictSet(xmit, "INMR01", px.tu), out |-> iso]
                     ELSE [xmit |-> DictSet(xmit, "INMR01", DictSet(px.tu, "INMFTIME", iso.val)),
                           out |-> Ok("None")]
                [] px.ret = "INMR02" ->
                     StoreHeader("INMR02", INMR02_count, px.tu,
                                 "numfile" :> Num(px.numfiles))
                [] px.ret = "INMR03" ->
                     StoreHeader("INMR03", INMR03_count, px.tu, EmptyDict)
     IN  /\ xmit' = r.xmit
         /\ IF r.out.kind = "raise"
            THEN pc' = "raised" /\ result' = RaisedIn("parse_" \o px.ret, r.out) /\ loc' = loc
            ELSE pc' = "parse_xmi" /\ result' = result /\ loc' = loc + section_length
  /\ UNCHANGED << tape, objectVars, member_blocks, pb, px, lastOp >>

\* self.manual_recordlength, the LRECL argument of __init__.
manual_recordlength == 80

\* The locals of parse_xmi and of the text_units call it is waiting for.
NoLocals ==
  [record_data |-> << >>, text_records |-> << >>, tu_loc |-> 0, tu |-> EmptyDict,
   INMDSNAM |-> << >>, ret |-> "", numfiles |-> 0, overran |-> FALSE]

\* parse_xmi, lines 1171-1184: the model is emptied and the header looked for.
PX_Enter ==
  /\ pc = "parse_xmi_enter"
  /\ xmit' = EmptyDict
  /\ IF decode(PySlice(xmit_object, 2, 8)) # STR_INMR01
     THEN pc' = "raised" /\ result' = RaisedIn("parse_xmi", Raise("No INMR01 record found")) /\ UNCHANGED << px, loc >>
     ELSE pc' = "parse_xmi" /\ px' = NoLocals /\ loc' = 0 /\ UNCHANGED result
  /\ UNCHANGED << tape, objectVars, member_blocks, pb, lastOp >>

\* parse_xmi, lines 1193-1225: a segment that is no control record.
DataSegment(section_length, flag) ==
  LET payload == PySlice(xmit_object, loc + 2, loc + section_length)
      noheader == ~Has(xmit, "INMR02") \/ ~Has(xmit["INMR02"], 1)
      named == Has(xmit["INMR02"][1], "INMDSNAM")
      ismessage == ~named /\ msg /\ Cardinality(DOMAIN xmit["INMR03"]) < 2
      fresh == DictSet(xmit, "message", "file" :> << >>)
      lrecl == xmit["INMR03"][1]["INMLRECL"]
      m0 == IF Has(xmit, "message") THEN xmit
            ELSE DictSet(xmit, "message", ("file" :> << >>) @@ ("lrecl" :> lrecl))
      m1 == [m0 EXCEPT !["message"]["file"] = @ \o payload]
      dsn == xmit["INMR02"][filelocation]["INMDSNAM"].v
      f0 == IF Has(xmit, "file") THEN xmit["file"] ELSE << >>
      f1 == IF ODHas(f0, dsn) THEN f0 ELSE ODSet(f0, dsn, "data" :> << >>)
      record_data == px.record_data \o payload
      f2 == IF Bit(flag, 64)
            THEN ODSet(f1, dsn, [ODGet(f1, dsn) EXCEPT !["data"] = Append(@, record_data)])
            ELSE f1
      keyerror == [xmit |-> xmit, out |-> Raise("KeyError"), record_data |-> px.record_data,
                   filelocation |-> filelocation]
  IN  IF noheader THEN keyerror
      ELSE IF ~named /\ msg /\ ~Has(xmit, "INMR03") THEN keyerror
      ELSE IF ismessage
      THEN IF ~Has(xmit, "message")
              /\ (~Has(xmit["INMR03"], 1) \/ ~Has(xmit["INMR03"][1], "INMLRECL"))
           THEN [keyerror EXCEPT !.xmit = fresh]
           ELSE [xmit |-> m1, out |-> Ok("None"), record_data |-> px.record_data,
                 filelocation |-> 2]
      ELSE IF ~Has(xmit["INMR02"], filelocation)
              \/ ~Has(xmit["INMR02"][filelocation], "INMDSNAM")
      THEN keyerror
      ELSE [xmit |-> DictSet(xmit, "file", f2), out |-> Ok("None"),
            record_data |-> IF Bit(flag, 64) THEN << >> ELSE record_data,
            filelocation |-> filelocation]

\* A record type that will never be met: with it the loop of parse_xmi
\* has no last record, which is what C4's formula tells it apart by.
IsLastRecord_never(record_type) == FALSE

\* parse_xmi, line 1236: the record that ends the parsing.
IsLastRecord(record_type) == record_type = STR_INMR06

\* parse_xmi, lines 1186-1244: one turn of the loop over the segments.
PX_Segment ==
  /\ pc = "parse_xmi"
  /\ loc < Len(xmit_object)
  /\ LET section_length == get_int(PySlice(xmit_object, loc, loc + 1))
         flag == get_int(PySlice(xmit_object, loc + 1, loc + 2))
         record_type == decode(PySlice(xmit_object, loc + 2, loc + 8))
         record == PySlice(xmit_object, loc + 8, loc + section_length)
         d == DataSegment(section_length, flag)
         \* the segment's length runs past the end of the bytes
         over == px.overran \/ loc + section_length > Len(xmit_object)
     IN  IF ~Bit(flag, 32)
         THEN /\ xmit' = d.xmit
              /\ filelocation' = d.filelocation
              /\ px' = [px EXCEPT !.record_data = d.record_data, !.overran = over]
              /\ IF d.out.kind = "raise"
                 THEN pc' = "raised" /\ result' = RaisedIn("parse_xmi", d.out) /\ loc' = loc
                 ELSE pc' = pc /\ result' = result /\ loc' = loc + section_length
              /\ UNCHANGED << INMR02_count, INMR03_count >>
         ELSE IF record_type = STR_INMR01
         THEN /\ px' = [CallTextUnits(record, "INMR01") EXCEPT !.overran = over]
              /\ pc' = "text_units"
              /\ UNCHANGED << xmit, filelocation, INMR02_count, INMR03_count, result, loc >>
         ELSE IF record_type = STR_INMR02
         THEN /\ INMR02_count' = INMR02_count + 1
              /\ IF Len(PySlice(record, 0, 4)) # 4
                 THEN \* struct.unpack('>L', ...) of fewer than four bytes
                      /\ pc' = "raised"
                      /\ result' = RaisedIn("parse_INMR02", Raise("struct.error"))
                      /\ px' = [px EXCEPT !.overran = over]
                      /\ UNCHANGED xmit
                 ELSE /\ xmit' = IF Has(xmit, "INMR02") THEN xmit
                                 ELSE DictSet(xmit, "INMR02", EmptyDict)
                      /\ px' = [CallTextUnits(PyFrom(record, 4), "INMR02")
                                  EXCEPT !.numfiles = get_int(PySlice(record, 0, 4)),
                                         !.overran = over]
                      /\ pc' = "text_units"
                      /\ UNCHANGED result
              /\ UNCHANGED << filelocation, INMR03_count, loc >>
         ELSE IF record_type = STR_INMR03
         THEN /\ INMR03_count' = INMR03_count + 1
              /\ xmit' = IF Has(xmit, "INMR03") THEN xmit
                         ELSE DictSet(xmit, "INMR03", EmptyDict)
              /\ px' = [CallTextUnits(record, "INMR03") EXCEPT !.overran = over]
              /\ pc' = "text_units"
              /\ UNCHANGED << filelocation, INMR02_count, result, loc >>
         ELSE IF IsLastRecord(record_type)
         THEN \* Processing last record: parse_xmi returns
              /\ pc' = "get_xmi_files"
              /\ px' = [px EXCEPT !.overran = over]
              /\ UNCHANGED << xmit, filelocation, INMR02_count, INMR03_count, result, loc >>
         ELSE /\ loc' = loc + section_length
              /\ px' = [px EXCEPT !.overran = over]
              /\ UNCHANGED << xmit, filelocation, INMR02_count, INMR03_count, pc, result >>
  /\ UNCHANGED << tape, msg, force, binary, unnum, gui, file_object, xmit_object,
                  tape_object, member_blocks, pb, lastOp, runs >>

\* convert_message, lines 1050-1057.
convert_message ==
  IF ~msg THEN [xmit |-> xmit, out |-> Ok("None")]
  ELSE IF ~Has(xmit, "message") THEN [xmit |-> xmit, out |-> Raise("KeyError")]
  ELSE IF xmit["message"]["lrecl"].t # "int" THEN [xmit |-> xmit, out |-> Raise("TypeError")]
  ELSE [xmit |-> [xmit EXCEPT !["message"] =
                    DictSet(@, "text",
                            convert_text_file(@["file"], @["lrecl"].v, unnum))],
        out |-> Ok("None")]

\* parse_xmi, lines 1246-1247: the segments are used up, the message is
\* converted.
PX_End ==
  /\ pc = "parse_xmi"
  /\ loc >= Len(xmit_object)
  /\ xmit' = convert_message.xmit
  /\ IF convert_message.out.kind = "raise"
     THEN pc' = "raised" /\ result' = RaisedIn("convert_message", convert_message.out)
     ELSE pc' = "get_xmi_files" /\ result' = result
  /\ UNCHANGED << tape, objectVars, loc, member_blocks, pb, px, lastOp >>

\* ------------------------------------------------------ IEBCOPY records
EYECATCHER == 13266191

Zeroes(n) == [i \in 1..n |-> 0]

\* first_record[a] of Python, for an a that is inside.
At(s, a) == s[a + 1]

\* "{:02d}{:04d}".format(a, b) as code points, for a < 100.
RECURSIVE Decimal(_)
Decimal(n) == IF n < 10 THEN << 48 + n >> ELSE Decimal(n \div 10) \o << 48 + (n % 10) >>

Padded(n, width) == [i \in 1..(width - Len(Decimal(n))) |-> 48] \o Decimal(n)

\* iebcopy_record_1, lines 1671-1744.
iebcopy_record_1(first_record) ==
  LET prefixed == get_int(PySlice(first_record, 1, 4)) # EYECATCHER
      r == IF prefixed THEN PyFrom(first_record, 8) ELSE first_record
      c0 == IF prefixed
            THEN ("block_length" :> get_int(PySlice(first_record, 0, 2)))
                 @@ ("seg_length" :> get_int(PySlice(first_record, 4, 6)))
            ELSE EmptyDict
      c1 == ("type" :> (IF At(r, 0) % 2 = 1 THEN "PDSE" ELSE "PDS"))
            @@ ("DS1DSORG" :> get_int(PySlice(r, 4, 6)))
            @@ ("DS1BLKL" :> get_int(PySlice(r, 6, 8)))
            @@ ("DS1LRECL" :> get_int(PySlice(r, 8, 10)))
            @@ ("DS1RECFM" :> get_recfm(PySlice(r, 10, 12)))
            @@ ("DS1KEYL" :> At(r, 11))
            @@ ("DS1OPTCD" :> At(r, 12))
            @@ ("DS1SMSFG" :> At(r, 13))
            @@ ("file_tape_blocksize" :> get_int(PySlice(r, 14, 16)))
            @@ ("DVAOPTS" :> get_int(PySlice(r, 16, 18)))
            @@ ("DVACLASS" :> At(r, 18))
            @@ ("DVAUNIT" :> At(r, 19))
            @@ ("DVAMAXRC" :> get_int(PySlice(r, 20, 24)))
            @@ ("DVACYL" :> get_int(PySlice(r, 24, 26)))
            @@ ("DVATRK" :> get_int(PySlice(r, 26, 28)))
            @@ ("DVATRKLN" :> get_int(PySlice(r, 28, 30)))
            @@ ("DVAOVHD" :> get_int(PySlice(r, 30, 32)))
            @@ ("num_header_records" :> get_int(PySlice(r, 36, 38)))
            @@ c0
      DS1REFD == PySlice(r, 39, 42)
      c2 == ("DS1REFD" :> Padded(At(DS1REFD, 0) % 100, 2)
                              \o Padded(get_int(PyFrom(DS1REFD, 1)), 4))
            @@ ("DS1SCEXT" :> PySlice(r, 42, 45))
            @@ ("DS1SCALO" :> PySlice(r, 45, 49))
            @@ ("DS1LSTAR" :> PySlice(r, 49, 52))
            @@ ("DS1TRBAL" :> PySlice(r, 52, 54))
            @@ c1
  IN  IF prefixed /\ get_int(PySlice(first_record, 9, 12)) # EYECATCHER
      THEN Raise("COPYR1 header eyecatcher 0xCA6D0F not found")
      ELSE IF Len(first_record) > 64
      THEN Raise("COPYR1 Length longer than 64 records")
      ELSE IF Len(r) < 20 THEN Raise("IndexError")
      ELSE IF PyFrom(r, 38) = Zeroes(18) THEN Ok(c1)
      ELSE IF Len(r) < 40 THEN Raise("IndexError")
      ELSE Ok(c2)

\* ------------------------------------------------------------ tape labels
\* int.from_bytes(bytes, 'little')
RECURSIVE get_int_little(_)
get_int_little(bytes) ==
  IF bytes = << >> THEN 0 ELSE bytes[1] + 256 * get_int_little(Tail(bytes))

\* str.strip()
RECURSIVE lstrip(_)
lstrip(s) == IF s # << >> /\ s[1] \in WhiteSpace THEN lstrip(Tail(s)) ELSE s

strip(s) == lstrip(rstrip(s))

IsDigit(c) == c \in 48..57

\* int(s) of a str: an optional sign, then decimal digits that single
\* underscores may separate; anything else is a ValueError.
PyInt(s) ==
  LET signed == s # << >> /\ s[1] \in { 43, 45 }
      body == IF signed THEN Tail(s) ELSE s
      wellformed ==
        /\ body # << >>
        /\ \A i \in 1..Len(body) : IsDigit(body[i]) \/ body[i] = 95
        /\ IsDigit(body[1])
        /\ IsDigit(body[Len(body)])
        /\ \A i \in 1..(Len(body) - 1) : ~(body[i] = 95 /\ body[i + 1] = 95)
      n == ToInt(SelectSeq(body, IsDigit))
  IN  IF ~wellformed THEN Raise("ValueError")
      ELSE Ok(IF signed /\ s[1] = 45 THEN 0 - n ELSE n)

\* make_int, lines 1116-1120.
make_int(num) == IF strip(num) = << >> THEN Ok(0) ELSE PyInt(strip(num))

\* t[i] of a str: the character as a str, or an IndexError.
CharAt(t, i) == IF i < Len(t) THEN Ok(<< t[i + 1] >>) ELSE Raise("IndexError")

\* make_int(t[i])
make_int_at(t, i) == IF i < Len(t) THEN make_int(<< t[i + 1] >>) ELSE Raise("IndexError")

Two(n) == << 48 + ((n \div 10) % 10), 48 + (n % 10) >>

Four(n) == Two(n \div 100) \o Two(n % 100)

\* The month and the day of the j-th day of the year y.
RECURSIVE MonthDay(_, _, _)
MonthDay(y, m, j) ==
  IF j <= DaysIn(y, m) THEN [m |-> m, d |-> j]
  ELSE MonthDay(y, m + 1, j - DaysIn(y, m))

\* strptime's date of '%Y%j': day 366 of a year that has 365 is the first
\* day of the year after.
OfJulian(y, j) ==
  IF j = 366 /\ ~IsLeap(y) THEN [y |-> y + 1, m |-> 1, d |-> 1]
  ELSE [y |-> y, m |-> MonthDay(y, 1, j).m, d |-> MonthDay(y, 1, j).d]

\* datetime.isoformat(timespec='microseconds') of a date at the time given.
IsoFormat(date, hours, minutes, seconds) ==
  Four(date.y) \o << 45 >> \o Two(date.m) \o << 45 >> \o Two(date.d) \o << 84 >>
    \o Two(hours) \o << 58 >> \o Two(minutes) \o << 58 >> \o Two(seconds)
    \o << 46, 48, 48, 48, 48, 48, 48 >>

\* get_tape_date, lines 1646-1659: cyyddd, c a blank or a digit.  A last
\* character '0' is made '1' before strptime reads '%Y%j': four digits,
\* then a day from 1 to 366 in one to three digits.
get_tape_date(tape_date) ==
  LET c == PyInt(<< tape_date[1] >>)
      full == IF tape_date[1] = 32 THEN << 49, 57 >> \o Tail(tape_date)
              ELSE Two(20 + c.val) \o Tail(tape_date)
      d == IF full[Len(full)] = 48
           THEN SubSeq(full, 1, Len(full) - 1) \o << 49 >>
           ELSE full
      j == ToInt(PyFrom(d, 4))
      valid == /\ Len(d) \in 5..7
               /\ \A i \in 1..Len(d) : IsDigit(d[i])
               /\ j \in 1..366
  IN  IF tape_date = << >> THEN Raise("IndexError")
      ELSE IF tape_date[1] # 32 /\ c.kind = "raise" THEN Raise("ValueError")
      ELSE IF ~valid THEN Raise("ValueError")
      ELSE Ok(IsoFormat(OfJulian(ToInt(SubSeq(d, 1, 4)), j), 0, 0, 0))

\* The first exception of the calls made in this order, if one raised.
Raised(outs) == \E i \in 1..Len(outs) : outs[i].kind = "raise"

FirstRaised(outs) ==
  outs[CHOOSE i \in 1..Len(outs) :
         outs[i].kind = "raise" /\ \A j \in 1..(i - 1) : outs[j].kind = "ok"]

\* parse_tape, lines 1446-1462: the fields of an HDR1 label, of the
\* outcomes of the calls made for them.
HDR1Of(t, outs) ==
  IF Raised(outs) THEN FirstRaised(outs)
  ELSE Ok([dsn |-> strip(PySlice(t, 4, 21)),
           dsnser |-> PySlice(t, 21, 27),
           volseq |-> outs[1].val,
           dsnseq |-> outs[2].val,
           gennum |-> outs[3].val,
           version |-> outs[4].val,
           createdate |-> outs[5].val,
           expirationdate |-> outs[6].val,
           dsnsec |-> outs[7].val # 0,
           block_count_low |-> outs[8].val,
           system_code |-> PySlice(t, 60, 73),
           block_count_high |-> outs[9].val])

ParseHDR1(t) ==
  HDR1Of(t, << make_int(PySlice(t, 27, 31)), make_int(PySlice(t, 31, 35)),
               make_int(PySlice(t, 35, 39)), make_int(PySlice(t, 39, 41)),
               get_tape_date(PySlice(t, 41, 47)), get_tape_date(PySlice(t, 47, 53)),
               make_int_at(t, 53), make_int(PySlice(t, 54, 60)),
               make_int(PySlice(t, 76, 80)) >>)

\* parse_tape, lines 1463-1479: the fields of an HDR2 label.
HDR2Of(t, outs) ==
  IF Raised(outs) THEN FirstRaised(outs)
  ELSE Ok([recfm |-> outs[1].val,
           block_len |-> outs[2].val,
           lrecl |-> outs[3].val,
           density |-> outs[4].val,
           position |-> outs[5].val,
           jobid |-> PySlice(t, 17, 34),
           technique |-> PySlice(t, 34, 36),
           control_char |-> outs[6].val,
           block_attr |-> outs[7].val,
           devser |-> PySlice(t, 41, 47),
           dsnid |-> outs[8].val,
           large_block_len |-> PySlice(t, 70, 80)])

ParseHDR2(t) ==
  HDR2Of(t, << CharAt(t, 4), make_int(PySlice(t, 5, 10)),
               make_int(strip(PySlice(t, 10, 15))), make_int_at(t, 15), CharAt(t, 16),
               CharAt(t, 36), CharAt(t, 38), CharAt(t, 47) >>)

\* ------------------------------------------------------- PDS directories
\* format(n, '02x') of a byte.
HexDigit(n) == IF n < 10 THEN 48 + n ELSE 87 + n

Hex2(b) == << HexDigit(b \div 16), HexDigit(b % 16) >>

\* ispf_date, lines 1122-1148.  strptime reads '%Y%j%H%M%S' from the 13
\* characters: four digits, a day 001..366, an hour, a minute, a second;
\* whatever it or datetime refuses is caught, and '' returned.
ispf_date(ispfdate, seconds) ==
  LET century == Decimal(19 + ispfdate[1])
      year == Hex2(ispfdate[2])
      day0 == Hex2(ispfdate[3]) \o << Hex2(ispfdate[4])[1] >>
      day == IF day0 = << 48, 48, 48 >> THEN << 48, 48, 49 >> ELSE day0
      hours == IF Len(ispfdate) > 4 THEN Hex2(ispfdate[5]) ELSE << 48, 48 >>
      minutes == IF Len(ispfdate) > 4 THEN Hex2(ispfdate[6]) ELSE << 48, 48 >>
      secs == IF seconds # 0 THEN Hex2(seconds) ELSE << 48, 48 >>
      date == century \o year \o day \o hours \o minutes \o secs
      y == ToInt(century \o year)
      j == ToInt(day)
      valid == /\ Len(date) = 13
               /\ \A i \in 1..Len(date) : IsDigit(date[i])
               /\ j \in 1..366
               /\ ToInt(hours) <= 23
               /\ ToInt(minutes) <= 59
               /\ ToInt(secs) <= 59
               /\ ~(y = 9999 /\ j = 366)
  IN  IF valid THEN IsoFormat(OfJulian(y, j), ToInt(hours), ToInt(minutes), ToInt(secs))
      ELSE << >>

\* b'\xff' * 8
SENTINEL == << 255, 255, 255, 255, 255, 255, 255, 255 >>

\* all_members, lines 1785-1789: the entries of one directory block.
RECURSIVE all_members_in(_, _, _)
all_members_in(directory_members_info, directory_len, at) ==
  IF at >= directory_len THEN Ok(FALSE)
  ELSE IF PySlice(directory_members_info, at, at + 8) = SENTINEL THEN Ok(TRUE)
  ELSE IF at + 11 >= Len(directory_members_info) THEN Raise("IndexError")
  ELSE all_members_in(directory_members_info, directory_len,
                      at + 8 + 3 + 1 + (At(directory_members_info, at + 11) % 32) * 2)

RECURSIVE all_members_from(_, _)
all_members_from(members, block_loc) ==
  IF block_loc >= Len(members) THEN Ok(FALSE)
  ELSE LET directory_len == get_int(PySlice(members, block_loc + 20, block_loc + 22)) - 2
           found == all_members_in(PySlice(members, block_loc + 22,
                                           block_loc + 22 + directory_len),
                                   directory_len, 0)
       IN  IF found.kind = "raise" \/ found.val THEN found
           ELSE all_members_from(members, block_loc + 276)

\* all_members, lines 1778-1791.
all_members(members) == all_members_from(members, 0)

\* get_members_info, lines 1826-1843: the ISPF statistics of an entry, and
\* False (here the empty dict, as false as it) where it has none.
IspfStats(member_parms) ==
  LET long == Bit(member_parms[3], 16)
  IN  ("version" :> (Padded(member_parms[1], 2) \o << 46 >> \o Padded(member_parms[2], 2)))
      @@ ("flags" :> member_parms[3])
      @@ ("createdate" :> ispf_date(PySlice(member_parms, 4, 8), 0))
      @@ ("modifydate" :> ispf_date(PySlice(member_parms, 8, 14), member_parms[4]))
      @@ ("lines" :> get_int(IF long THEN PySlice(member_parms, 28, 32)
                             ELSE PySlice(member_parms, 14, 16)))
      @@ ("newlines" :> get_int(IF long THEN PySlice(member_parms, 32, 36)
                                ELSE PySlice(member_parms, 16, 18)))
      @@ ("modlines" :> get_int(IF long THEN PySlice(member_parms, 36, 40)
                                ELSE PySlice(member_parms, 18, 20)))
      @@ ("user" :> rstrip(decode(PySlice(member_parms, 20, 28))))

\* get_members_info, lines 1817-1847: the entry at loc.
MemberEntry(directory_members_info, at) ==
  LET flag == At(directory_members_info, at + 11)
      halfwords == (flag % 32) * 2
      notes == (flag \div 32) % 4
      parms == PySlice(directory_members_info, at + 12, at + 12 + halfwords)
  IN  ("ttr" :> get_int(PySlice(directory_members_info, at + 8, at + 11)))
      @@ ("alias" :> Bit(flag, 128))
      @@ ("halfwords" :> halfwords)
      @@ ("notes" :> notes)
      @@ ("parms" :> parms)
      @@ ("ispf" :> IF Len(parms) >= 30 /\ notes = 0 THEN IspfStats(parms)
                    ELSE EmptyDict)

\* get_members_info, lines 1809-1847: the entries of one directory block.
\* At the sentinel loc is made len(directory).
RECURSIVE members_in(_, _, _, _, _)
members_in(directory, directory_members_info, directory_len, at, members) ==
  IF at >= directory_len THEN [members |-> members, loc |-> at, out |-> Ok("None")]
  ELSE IF PySlice(directory_members_info, at, at + 8) = SENTINEL
  THEN [members |-> members, loc |-> Len(directory), out |-> Ok("None")]
  ELSE IF at + 11 >= Len(directory_members_info)
  THEN [members |-> members, loc |-> at, out |-> Raise("IndexError")]
  ELSE LET member_name == rstrip(decode(PySlice(directory_members_info, at, at + 8)))
           entry == MemberEntry(directory_members_info, at)
       IN  members_in(directory, directory_members_info, directory_len,
                      at + 8 + 3 + 1 + entry["halfwords"],
                      ODSet(members, member_name, entry))

\* get_members_info, lines 1848-1850: the block after, 276 bytes on.
NextBlock(block_loc) ==
  IF block_loc % 276 > 0 THEN 276 * (block_loc \div 276) + 276 ELSE block_loc

RECURSIVE members_from(_, _, _)
members_from(directory, block_loc, members) ==
  IF block_loc >= Len(directory) THEN Ok(members)
  ELSE LET directory_len == get_int(PySlice(directory, block_loc + 20, block_loc + 22)) - 2
           b == members_in(directory,
                           PySlice(directory, block_loc + 22, block_loc + 22 + directory_len),
                           directory_len, 0, members)
       IN  IF b.out.kind = "raise" THEN b.out
           ELSE members_from(directory, NextBlock(block_loc + b.loc + 24), b.members)

\* get_members_info, lines 1794-1863.
get_members_info(directory) == members_from(directory, 0, << >>)

\* iebcopy_record_2, lines 1746-1758.  The message of its exception names
\* first_record, which is no name there.
iebcopy_record_2(second_record) ==
  IF Len(second_record) > 276 THEN Raise("NameError")
  ELSE Ok(("deb" :> PySlice(second_record, 0, 16))
          @@ ("extents" :> [i \in 1..16 |->
                              PySlice(second_record, 16 * (i - 1), 16 * i)]))

\* ------------------------------------------------------- get_xmi_files
\* get_xmi_files, lines 1257-1262: the INMR02 and INMR03 entries of the
\* file (the second, when the first is a message) and its records.
XmiFileNumber == IF msg THEN 2 ELSE 1

XmiFileKnown ==
  /\ Has(xmit, "INMR02")
  /\ Has(xmit["INMR02"], XmiFileNumber)
  /\ Has(xmit["INMR02"][XmiFileNumber], "INMDSNAM")
  /\ Has(xmit, "file")
  /\ ODHas(xmit["file"], xmit["INMR02"][XmiFileNumber]["INMDSNAM"].v)
  /\ Has(xmit, "INMR03")
  /\ Has(xmit["INMR03"], XmiFileNumber)
  /\ Has(xmit["INMR03"][XmiFileNumber], "INMLRECL")
  /\ Has(xmit["INMR02"][XmiFileNumber], "INMRECFM")

\* get_xmi_files, lines 1268-1298: the dataset is classified, its text
\* made, and the three are stored.
ClassifyXmiFile(file, dsnfile, recl, recfm) ==
  LET whole == Join(dsnfile)
      mg == from_buffer(whole)
      isxmi == /\ mg.filetype = "application/octet-stream"
               /\ Len(dsnfile[1]) >= 8
               /\ decode(PySlice(dsnfile[1], 2, 8)) = STR_INMR01
      filetype == IF isxmi THEN "application/xmit" ELSE mg.filetype
      extention == IF force THEN ".txt"
                   ELSE IF isxmi THEN ".xmi"
                   ELSE guess_extension(mg.filetype)
      astext == filetype = "text/plain" \/ mg.datatype # "binary"
      described(f) == DictSet(DictSet(DictSet(f, "filetype", filetype),
                                "datatype", mg.datatype), "extension", extention)
  IN  IF ~astext THEN [file |-> described(file), out |-> Ok("None")]
      ELSE IF InStr("F", recfm.v)
      THEN IF recl.t # "int" THEN [file |-> file, out |-> Raise("TypeError")]
           ELSE [file |-> described(DictSet(file, "text",
                                            convert_text_file(whole, recl.v, unnum))),
                 out |-> Ok("None")]
      ELSE IF InStr("V", recfm.v)
      THEN \* self.xmit['file'][filename]['text'] += ... of a text not there
           IF dsnfile = << >> THEN [file |-> described(file), out |-> Ok("None")]
           ELSE [file |-> file, out |-> Raise("KeyError")]
      ELSE [file |-> described(DictSet(file, "text",
                                       convert_text_file(whole, manual_recordlength, unnum))),
            out |-> Ok("None")]

\* get_xmi_files, lines 1310-1326: the blocks of the directory, from the
\* third of the file up to the one in which all_members finds the end.
RECURSIVE directory_blocks(_, _, _)
directory_blocks(dsnfile, count_dir_blocks, member_dir) ==
  IF count_dir_blocks >= Len(dsnfile)
  THEN [member_dir |-> member_dir, count_dir_blocks |-> count_dir_blocks,
        out |-> Ok("None")]
  ELSE LET more == member_dir \o dsnfile[count_dir_blocks + 1]
           last == all_members(more)
       IN  IF last.kind = "raise" \/ last.val
           THEN [member_dir |-> more, count_dir_blocks |-> count_dir_blocks + 1,
                 out |-> last]
           ELSE directory_blocks(dsnfile, count_dir_blocks + 1, more)

\* get_xmi_files, lines 1251-1332.  A file whose first record is no COPYR1
\* is left as a sequential dataset; of a PDS the second record and the
\* directory are read, and process_blocks is handed the blocks after.
GX_Files ==
  /\ pc = "get_xmi_files"
  /\ IF ~XmiFileKnown
     THEN /\ pc' = "raised"
          /\ result' = RaisedIn("get_xmi_files", Raise("KeyError"))
          /\ UNCHANGED << xmit, pb, member_blocks >>
     ELSE LET filename == xmit["INMR02"][XmiFileNumber]["INMDSNAM"].v
              file == ODGet(xmit["file"], filename)
              dsnfile == file["data"]
              c == ClassifyXmiFile(file, dsnfile, xmit["INMR03"][XmiFileNumber]["INMLRECL"],
                                   xmit["INMR02"][XmiFileNumber]["INMRECFM"])
              COPYR1 == IF dsnfile = << >> THEN Raise("IndexError")
                        ELSE iebcopy_record_1(dsnfile[1])
              pds == DictSet(DictSet(DictSet(c.file, "COPYR1", COPYR1.val),
                                     "filetype", "pds/directory"), "extension", "None")
              COPYR2 == IF Len(dsnfile) < 2 THEN Raise("IndexError")
                        ELSE iebcopy_record_2(dsnfile[2])
              d == directory_blocks(dsnfile, 2, << >>)
              members == get_members_info(d.member_dir)
              fail(where, out, stored) ==
                /\ pc' = "raised"
                /\ result' = RaisedIn(where, out)
                /\ xmit' = [xmit EXCEPT !["file"] = ODSet(@, filename, stored)]
                /\ UNCHANGED << pb, member_blocks >>
          IN  IF c.out.kind = "raise"
              THEN /\ pc' = "raised"
                   /\ result' = RaisedIn("get_xmi_files", c.out)
                   /\ UNCHANGED << xmit, pb, member_blocks >>
              ELSE IF COPYR1.kind = "raise"
              THEN /\ pc' = "parsed"
                   /\ result' = Ok("None")
                   /\ xmit' = [xmit EXCEPT !["file"] = ODSet(@, filename, c.file)]
                   /\ UNCHANGED << pb, member_blocks >>
              ELSE IF Len(dsnfile) < 2 THEN fail("get_xmi_files", COPYR2, pds)
              ELSE IF COPYR2.kind = "raise" THEN fail("iebcopy_record_2", COPYR2, pds)
              ELSE IF d.out.kind = "raise"
              THEN fail("all_members", d.out, DictSet(pds, "COPYR2", COPYR2.val))
              ELSE IF members.kind = "raise"
              THEN fail("get_members_info", members, DictSet(pds, "COPYR2", COPYR2.val))
              ELSE /\ pc' = "process_blocks"
                   /\ result' = result
                   /\ xmit' = [xmit EXCEPT !["file"] =
                                 ODSet(@, filename,
                                       DictSet(DictSet(pds, "COPYR2", COPYR2.val),
                                               "members", members.val))]
                   /\ member_blocks' = Join(SubSeq(dsnfile, d.count_dir_blocks + 1,
                                                   Len(dsnfile)))
                   /\ pb' = [NoBlocks EXCEPT !.dsn = filename]
  /\ UNCHANGED << tape, objectVars, loc, px, lastOp >>

\* ------------------------------------------------------------- parse_tape
STR_VOL1 == << 86, 79, 76, 49 >>

STR_HDR1 == << 72, 68, 82, 49 >>

STR_HDR2 == << 72, 68, 82, 50 >>

STR_EOF1 == << 69, 79, 70, 49 >>

STR_EOF2 == << 69, 79, 70, 50 >>

STR_UTL == << 85, 84, 76 >>

\* The flags of a block, lines 1397-1403.
NEWREC == 32768

EOF == 16384

ENDREC == 8192

BZIP2 == 512

ZLIB == 256

\* 'FILE{:>04d}'.format(file_num)
FileName(file_num) == << 70, 73, 76, 69 >> \o Four(file_num)

\* bz2 and zlib, which are outside the repository.  A compressed stream
\* stands here as the signature of its library ('BZh', 0x78 0x9C) before
\* the bytes it holds: it is never the bytes themselves, nor of their
\* length.  Bytes without the signature are refused, but bz2 gives
\* nothing for no bytes at all.
BZ_MAGIC == << 66, 90, 104 >>

Z_MAGIC == << 120, 156 >>

bz2_compress(data) == BZ_MAGIC \o data

zlib_compress(data) == Z_MAGIC \o data

bz2_decompress(data) ==
  IF data = << >> THEN Ok(<< >>)
  ELSE IF PySlice(data, 0, 3) = BZ_MAGIC THEN Ok(PyFrom(data, 3))
  ELSE Raise("OSError")

zlib_decompress(data) ==
  IF PySlice(data, 0, 2) = Z_MAGIC THEN Ok(PyFrom(data, 2))
  ELSE Raise("zlib.error")

\* The locals of parse_tape, lines 1381-1389, and the place of
\* get_tape_files in its loop over the files.
TapeLocals ==
  [UTL |-> << >>, tape_file |-> << >>, tape_text |-> << >>, file_num |-> 1,
   eof_marker |-> FALSE, eor_marker |-> FALSE, HDR1 |-> EmptyDict,
   HDR2 |-> EmptyDict, volume_label |-> EmptyDict, file_at |-> 1,
   dataset |-> << >>, member_dir |-> << >>, member_files |-> << >>,
   overran |-> FALSE]

\* parse_tape, lines 1373-1389: self.tape is emptied.
PT_Enter ==
  /\ pc = "parse_tape_enter"
  /\ tape' = DictSet(EmptyDict, "file", << >>)
  /\ px' = TapeLocals
  /\ loc' = 0
  /\ pc' = "parse_tape"
  /\ UNCHANGED << xmit, objectVars, member_blocks, pb, lastOp, result >>

\* 'F' and 'V' in a str of code points.
LETTER_F == 70

LETTER_V == 86

\* parse_tape, lines 1497-1526: the record that a tape mark ended is
\* classified, and its text made.
ClassifyTapeFile(tape_file, HDR2, tape_text) ==
  LET mg == from_buffer(tape_file)
      isxmi == /\ mg.filetype = "application/octet-stream"
               /\ Len(tape_file) >= 8
               /\ decode(PySlice(tape_file, 2, 8)) = STR_INMR01
      filetype == IF isxmi THEN "application/xmit" ELSE mg.filetype
      extention == IF force THEN ".txt"
                   ELSE IF isxmi THEN ".xmi"
                   ELSE guess_extension(mg.filetype)
      astext == filetype = "text/plain" \/ mg.datatype # "binary" \/ force
      text == IF ~astext THEN Ok(<< >>)
              ELSE IF ~Has(HDR2, "lrecl")
              THEN Ok(convert_text_file(tape_file, manual_recordlength, unnum))
              ELSE IF InStr(LETTER_F, HDR2["recfm"])
              THEN Ok(convert_text_file(tape_file, HDR2["lrecl"], unnum))
              ELSE IF InStr(LETTER_V, HDR2["recfm"])
              THEN \* vb_tape_file is a name nothing has set
                   Raise("NameError")
              ELSE Ok(tape_text)
  IN  [filetype |-> filetype, datatype |-> mg.datatype, extention |-> extention,
       text |-> text]

\* parse_tape, lines 1528-1569: the entry of a record that is not empty.
TapeOutput(tape_file, c, tape_text, l) ==
  (("data" :> tape_file) @@ ("filetype" :> c.filetype) @@ ("datatype" :> c.datatype)
     @@ ("extension" :> c.extention) @@ ("num" :> l.file_num))
  @@ (IF tape_text # << >> THEN ("text" :> tape_text) ELSE EmptyDict)
  @@ (IF DOMAIN l.HDR1 # {} THEN ("HDR1" :> l.HDR1) ELSE EmptyDict)
  @@ (IF DOMAIN l.HDR2 # {} THEN ("HDR2" :> l.HDR2) ELSE EmptyDict)
  @@ (IF l.UTL # << >> THEN ("UTL" :> l.UTL) ELSE EmptyDict)

\* parse_tape, lines 1407-1412 and 1429-1437: the header of the block at
\* loc, its payload, and what is read of it.
BlockIn(object, at) ==
  [cur_blocksize |-> get_int_little(PySlice(object, at, at + 2)),
   flags |-> get_int(PySlice(object, at + 4, at + 6)),
   payload |-> PySlice(object, at + 6,
                       at + get_int_little(PySlice(object, at, at + 2)) + 6),
   eyecatcher |-> decode(PySlice(object, at + 6, at + 10))]

BlockAt(at) == BlockIn(tape_object, at)

Decompressed(b) ==
  IF Bit(b.flags, BZIP2) THEN bz2_decompress(b.payload)
  ELSE IF Bit(b.flags, ZLIB) THEN zlib_decompress(b.payload)
  ELSE Ok(b.payload)

\* parse_tape, lines 1416-1427: the flags of the block.
Unrecognized(flags) == ~Bit(flags, NEWREC) /\ ~Bit(flags, EOF) /\ ~Bit(flags, ENDREC)

Marked(was, flags, bit) == ~Bit(flags, NEWREC) /\ (was \/ Bit(flags, bit))

\* parse_tape, lines 1440-1485: the labels the block holds.
LabelsOf(b, tape_file) ==
  [volume_label |->
     IF DOMAIN px.volume_label = {} /\ decode(PySlice(tape_file, 0, 4)) = STR_VOL1
     THEN [volser |-> decode(PySlice(tape_file, 4, 10)),
           owner |-> decode(PySlice(tape_file, 41, 51))]
     ELSE px.volume_label,
   HDR1 |-> IF b.eyecatcher = STR_HDR1 /\ b.cur_blocksize = 80
            THEN ParseHDR1(decode(b.payload))
            ELSE Ok(px.HDR1),
   HDR2 |-> IF b.eyecatcher = STR_HDR2 /\ b.cur_blocksize = 80
            THEN ParseHDR2(decode(b.payload))
            ELSE Ok(px.HDR2),
   UTL |-> IF PySlice(b.eyecatcher, 0, 3) = STR_UTL /\ b.cur_blocksize = 80
           THEN Append(px.UTL, PyFrom(decode(b.payload), 4))
           ELSE px.UTL]

\* The locals of parse_tape once the block is read.
LocalsAfter(b, labels) ==
  [px EXCEPT !.eof_marker = Marked(@, b.flags, EOF),
             !.eor_marker = Marked(@, b.flags, ENDREC),
             !.volume_label = labels.volume_label,
             !.HDR1 = labels.HDR1.val,
             !.HDR2 = labels.HDR2.val,
             !.UTL = labels.UTL,
             !.overran = @ \/ loc + 6 + b.cur_blocksize > Len(tape_object)]

\* parse_tape raises.
PT_Raise(e) ==
  /\ pc' = "raised"
  /\ result' = RaisedIn("parse_tape", e)
  /\ UNCHANGED << tape, px, loc >>

\* parse_tape, lines 1528-1576: the record is stored, if it is not empty.
PT_Store(b, tape_file, l, c) ==
  IF c.text.kind = "raise" THEN PT_Raise(c.text)
  ELSE IF Len(tape_file) > 0
  THEN /\ tape' = [tape EXCEPT !["file"] =
                     ODSet(@, IF Has(l.HDR1, "dsn") THEN l.HDR1["dsn"]
                              ELSE FileName(l.file_num),
                           TapeOutput(tape_file, c, c.text.val, l))]
       /\ px' = [l EXCEPT !.tape_file = << >>, !.tape_text = c.text.val,
                           !.file_num = @ + 1, !.HDR1 = EmptyDict,
                           !.HDR2 = EmptyDict, !.UTL = << >>]
       /\ loc' = loc + b.cur_blocksize + 6
       /\ UNCHANGED << pc, result >>
  ELSE \* Empty tape entry, skipping
       /\ px' = [l EXCEPT !.tape_file = << >>, !.tape_text = c.text.val]
       /\ loc' = loc + b.cur_blocksize + 6
       /\ UNCHANGED << tape, pc, result >>

\* parse_tape, lines 1489-1576: what the tape mark, if one is set, does.
PT_Mark(b, tape_file, l) ==
  IF ~l.eof_marker
  THEN /\ px' = [l EXCEPT !.tape_file = tape_file]
       /\ loc' = loc + b.cur_blocksize + 6
       /\ UNCHANGED << tape, pc, result >>
  ELSE IF decode(PySlice(tape_file, 0, 4))
            \in { STR_VOL1, STR_HDR1, STR_HDR2, STR_EOF1, STR_EOF2 }
  THEN \* Skipping VOL/HDR/EOF records: continue, loc as it is
       /\ px' = [l EXCEPT !.tape_file = << >>]
       /\ UNCHANGED << tape, pc, result, loc >>
  ELSE PT_Store(b, tape_file, l, ClassifyTapeFile(tape_file, l.HDR2, px.tape_text))

PT_Labels(b, tape_file, labels) ==
  IF labels.HDR1.kind = "raise" THEN PT_Raise(labels.HDR1)
  ELSE IF labels.HDR2.kind = "raise" THEN PT_Raise(labels.HDR2)
  ELSE PT_Mark(b, tape_file, LocalsAfter(b, labels))

PT_Read(b, read) ==
  IF Unrecognized(b.flags) THEN PT_Raise(Raise("Header flag unrecognized"))
  ELSE IF read.kind = "raise" THEN PT_Raise(read)
  ELSE PT_Labels(b, px.tape_file \o read.val, LabelsOf(b, px.tape_file \o read.val))

\* parse_tape, lines 1391-1576: one turn of the loop over the blocks.
PT_Block ==
  /\ pc = "parse_tape"
  /\ loc < Len(tape_object)
  /\ PT_Read(BlockAt(loc), Decompressed(BlockAt(loc)))
  /\ UNCHANGED << xmit, objectVars, member_blocks, pb, lastOp >>

\* parse_tape, lines 1577-1582: the volume label, and the return.
PT_End ==
  /\ pc = "parse_tape"
  /\ loc >= Len(tape_object)
  /\ tape' = IF DOMAIN px.volume_label # {}
             THEN DictSet(tape, "label", px.volume_label)
             ELSE tape
  /\ px' = [px EXCEPT !.file_at = 1]
  /\ pc' = "get_tape_files"
  /\ UNCHANGED << xmit, objectVars, loc, member_blocks, pb, lastOp, result >>

\* ------------------------------------------------------- get_tape_files
\* The dataset the loop of get_tape_files stands at.
TapeFileName == ODKeys(tape["file"])[px.file_at]

\* get_tape_files, lines 1588-1614: the next dataset of the tape.  One
\* whose first record is no COPYR1 is left as it is.
GT_File ==
  /\ pc = "get_tape_files"
  /\ px.file_at <= Len(tape["file"])
  /\ LET filename == TapeFileName
         file == ODGet(tape["file"], filename)
         dataset == file["data"]
         copyr1_size == get_int(PySlice(dataset, 0, 2))
         COPYR1 == iebcopy_record_1(PySlice(dataset, 0, copyr1_size))
         copyr2_size == get_int(PySlice(dataset, copyr1_size, copyr1_size + 2))
         COPYR2 == iebcopy_record_2(PySlice(dataset, copyr1_size + 8,
                                            copyr1_size + copyr2_size))
         pds == DictSet(DictSet(DictSet(file, "COPYR1", COPYR1.val),
                                "filetype", "pds/directory"), "extension", "None")
     IN  IF COPYR1.kind = "raise"
         THEN /\ px' = [px EXCEPT !.file_at = @ + 1]
              /\ UNCHANGED << tape, pc, loc, result >>
         ELSE IF COPYR2.kind = "raise"
         THEN /\ tape' = [tape EXCEPT !["file"] = ODSet(@, filename, pds)]
              /\ pc' = "raised"
              /\ result' = RaisedIn("iebcopy_record_2", COPYR2)
              /\ UNCHANGED << px, loc >>
         ELSE /\ tape' = [tape EXCEPT !["file"] =
                            ODSet(@, filename, DictSet(pds, "COPYR2", COPYR2.val))]
              /\ px' = [px EXCEPT !.dataset = PyFrom(dataset, copyr1_size + copyr2_size),
                                  !.member_dir = << >>]
              /\ loc' = 0
              /\ pc' = "gt_directory"
              /\ result' = result
  /\ UNCHANGED << xmit, objectVars, member_blocks, pb, lastOp >>

\* get_tape_files, lines 1616-1621 and 1634-1639: the offset after the
\* block at the offset, whose length its descriptor word gives.
AfterBlock(dataset, at) == at + get_int(PySlice(dataset, at, at + 2))

\* get_tape_files, lines 1615-1624: one turn of the loop over the blocks
\* of the directory.
GT_DirBlock ==
  /\ pc = "gt_directory"
  /\ loc < Len(px.dataset)
  /\ LET block_size == get_int(PySlice(px.dataset, loc, loc + 2))
         member_dir == px.member_dir \o PySlice(px.dataset, loc + 8, loc + block_size)
         last == all_members(member_dir)
     IN  /\ px' = [px EXCEPT !.member_dir = member_dir]
         /\ loc' = AfterBlock(px.dataset, loc)
         /\ IF last.kind = "raise"
            THEN pc' = "raised" /\ result' = RaisedIn("all_members", last)
            ELSE /\ pc' = IF last.val THEN "gt_members" ELSE pc
                 /\ result' = result
  /\ UNCHANGED << xmit, tape, objectVars, member_blocks, pb, lastOp >>

\* get_tape_files, lines 1626-1630: the directory is read.
GT_Members ==
  /\ pc = "gt_members" \/ (pc = "gt_directory" /\ loc >= Len(px.dataset))
  /\ LET members == get_members_info(px.member_dir)
     IN  IF members.kind = "raise"
         THEN /\ pc' = "raised"
              /\ result' = RaisedIn("get_members_info", members)
              /\ UNCHANGED << tape, px, loc >>
         ELSE /\ tape' = [tape EXCEPT !["file"] =
                            ODSet(@, TapeFileName,
                                  DictSet(ODGet(@, TapeFileName), "members", members.val))]
              /\ px' = [px EXCEPT !.dataset = PyFrom(@, loc), !.member_files = << >>]
              /\ loc' = 0
              /\ pc' = "gt_blocks"
              /\ result' = result
  /\ UNCHANGED << xmit, objectVars, member_blocks, pb, lastOp >>

\* get_tape_files, lines 1632-1641: one turn of the loop over the blocks
\* of the members.
GT_MemberBlock ==
  /\ pc = "gt_blocks"
  /\ loc < Len(px.dataset)
  /\ LET block_size == get_int(PySlice(px.dataset, loc, loc + 2))
         member_files == px.member_files \o PySlice(px.dataset, loc + 8, loc + block_size)
     IN  /\ px' = [px EXCEPT !.member_files = member_files]
         /\ loc' = AfterBlock(px.dataset, loc)
         /\ pc' = IF PySlice(member_files, 0 - 12, Len(member_files)) = Zeroes(12)
                  THEN "gt_process" ELSE pc
  /\ UNCHANGED << xmit, tape, objectVars, member_blocks, pb, lastOp, result >>

\* get_tape_files, line 1643: process_blocks is handed the dataset and
\* the member blocks; the loop goes on with the next dataset after it.
GT_Process ==
  /\ pc = "gt_process" \/ (pc = "gt_blocks" /\ loc >= Len(px.dataset))
  /\ member_blocks' = px.member_files
  /\ pb' = [NoBlocks EXCEPT !.dsn = TapeFileName, !.of = "tape",
                            !.ret = "get_tape_files"]
  /\ px' = [px EXCEPT !.file_at = @ + 1]
  /\ pc' = "process_blocks"
  /\ UNCHANGED << xmit, tape, objectVars, loc, lastOp, result >>

\* get_tape_files, lines 1585-1643: no dataset is left, go() returns.
GT_Return ==
  /\ pc = "get_tape_files"
  /\ px.file_at > Len(tape["file"])
  /\ pc' = "parsed"
  /\ result' = Ok("None")
  /\ UNCHANGED << xmit, tape, objectVars, loc, member_blocks, pb, px, lastOp >>

\* ------------------------------------------------------------------- go
\* filetype_is_xmi, lines 833-837, and filetype_is_tape, lines 839-843.
filetype_is_xmi(current_file) == decode(PySlice(current_file, 2, 8)) = STR_INMR01

filetype_is_tape(current_file) == get_int(PySlice(current_file, 2, 4)) = 0

\* go, lines 156-184, up to the call of the parser it chooses.  No file
\* name is set: the bytes come from set_file_object.
Go ==
  /\ pc = "go"
  /\ lastOp' = [op |-> "go", pds |-> << >>, member |-> << >>, accessed |-> << >>]
  /\ IF file_object = << >>
     THEN /\ pc' = "raised"
          /\ result' = RaisedIn("go", Raise("No file or object to load."))
          /\ UNCHANGED << xmit_object, tape_object >>
     ELSE IF filetype_is_xmi(PySlice(file_object, 0, 10))
     THEN /\ pc' = "parse_xmi_enter"
          /\ xmit_object' = file_object
          /\ UNCHANGED << tape_object, result >>
     ELSE IF filetype_is_tape(PySlice(file_object, 0, 4))
     THEN /\ pc' = "parse_tape_enter"
          /\ tape_object' = file_object
          /\ UNCHANGED << xmit_object, result >>
     ELSE /\ pc' = "raised"
          /\ result' = RaisedIn("go", Raise("File not XMIT or Virtual Tape"))
          /\ UNCHANGED << xmit_object, tape_object >>
  /\ UNCHANGED << xmit, tape, msg, force, binary, unnum, gui, INMR02_count, INMR03_count,
                  filelocation, file_object, loc, member_blocks, pb, px, runs >>

\* XMIssion.__init__, lines 95-126 of xmission.py, without a file name:
\* no data, a parser object that has parsed nothing (object 0), no worker
\* thread, the loading window hidden.
NoGui ==
  [running |-> FALSE, working_window |-> "hidden", file_data |-> FALSE,
   XMI |-> 0, objects |-> << >>, threads |-> << >>, work_thread |-> 0,
   idle |-> 0, timeouts |-> 0, progress_bar |-> 0, at |-> "main",
   handler |-> "none", observed |-> [XMI |-> "none", loading |-> FALSE]]

\* go() has returned or raised.
Finished == pc \in { "parsed", "raised" }

\* XMIT(force=f, binary=b), lines 102-131, and set_file_object(data),
\* lines 210-215.
NewXMIT(data, f, b) ==
  /\ gui = NoGui
  /\ xmit = EmptyDict
  /\ tape = EmptyDict
  /\ msg = FALSE
  /\ force = f
  /\ binary = b
  /\ unnum = TRUE
  /\ INMR02_count = 0
  /\ INMR03_count = 0
  /\ filelocation = 1
  /\ file_object = data
  /\ xmit_object = << >>
  /\ tape_object = << >>

\* What a run of go() left, kept for the run that follows.
Remember(how) ==
  [n |-> 2, how |-> how, second |-> runs.second, first |-> file_object,
   xmit |-> xmit, tape |-> tape, result |-> result, pc |-> pc]

\* A second object is made as the first was, given the bytes of the
\* second run, and go() is called on it.
SecondObject ==
  /\ Finished
  /\ runs.n = 1
  /\ lastOp.op = "go"
  /\ runs' = Remember("fresh")
  /\ xmit' = EmptyDict
  /\ tape' = EmptyDict
  /\ msg' = FALSE
  /\ INMR02_count' = 0
  /\ INMR03_count' = 0
  /\ filelocation' = 1
  /\ file_object' = runs.second
  /\ xmit_object' = << >>
  /\ tape_object' = << >>
  /\ pc' = "go"
  /\ loc' = 0
  /\ member_blocks' = << >>
  /\ pb' = NoBlocks
  /\ px' = NoLocals
  /\ result' = Ok("None")
  /\ UNCHANGED << force, binary, unnum, gui, lastOp >>

\* The same object is given the bytes of the second run
\* (set_file_object) and go() is called on it again.
SameObject ==
  /\ Finished
  /\ runs.n = 1
  /\ lastOp.op = "go"
  /\ runs' = Remember("same")
  /\ file_object' = runs.second
  /\ pc' = "go"
  /\ result' = Ok("None")
  /\ UNCHANGED << xmit, tape, msg, force, binary, unnum, gui, INMR02_count, INMR03_count,
                  filelocation, xmit_object, tape_object, loc, member_blocks,
                  pb, px, lastOp >>

\* ------------------------------------------------- queries of the archive
\* get_files, lines 290-299.
get_files ==
  IF check_parsed.kind = "raise" THEN check_parsed
  ELSE IF has_xmi_model /\ ~Has(xmit, "file") THEN Raise("KeyError")
  ELSE IF has_tape_model /\ ~Has(tape, "file") THEN Raise("KeyError")
  ELSE Ok((IF has_xmi_model THEN ODKeys(xmit["file"]) ELSE << >>)
          \o (IF has_tape_model THEN ODKeys(tape["file"]) ELSE << >>))

\* has_message, lines 354-356.
has_message == IF check_parsed.kind = "raise" THEN check_parsed ELSE Ok(msg)

\* get_message, lines 358-362: the model it leaves, and what it returns.
get_message ==
  IF check_parsed.kind = "raise" THEN [xmit |-> xmit, out |-> check_parsed]
  ELSE IF ~msg THEN [xmit |-> xmit, out |-> Ok("None")]
  ELSE IF convert_message.out.kind = "raise" THEN convert_message
  ELSE [xmit |-> convert_message.xmit,
        out |-> Ok(convert_message.xmit["message"]["text"])]

\* get_owner, lines 308-315.
get_owner ==
  IF check_parsed.kind = "raise" THEN check_parsed
  ELSE IF has_xmi_model
  THEN IF Has(xmit["INMR01"], "INMFUID") THEN Ok(xmit["INMR01"]["INMFUID"].v)
       ELSE Raise("KeyError")
  ELSE IF Has(tape, "label") THEN Ok(tape["label"]["owner"])
  ELSE Ok(<< >>)

\* The names of the datasets of the archive.
DatasetNames ==
  (IF Has(xmit, "file") THEN { xmit["file"][i].k : i \in 1..Len(xmit["file"]) } ELSE {})
  \cup (IF Has(tape, "file") THEN { tape["file"][i].k : i \in 1..Len(tape["file"]) } ELSE {})

\* is_sequential, lines 700-713.
is_sequential(pds) ==
  IF check_parsed.kind = "raise" THEN check_parsed
  ELSE IF has_xmi_model
  THEN Ok(/\ Has(xmit, "file")
          /\ ODHas(xmit["file"], pds)
          /\ ~Has(ODGet(xmit["file"], pds), "members"))
  ELSE Ok(/\ Has(tape, "file")
          /\ ODHas(tape["file"], pds)
          /\ ~Has(ODGet(tape["file"], pds), "members"))

\* is_pds, lines 715-717.
is_pds(pds) ==
  IF check_parsed.kind = "raise" THEN check_parsed
  ELSE IF is_sequential(pds).kind = "raise" THEN is_sequential(pds)
  ELSE Ok(~is_sequential(pds).val)

\* get_members, lines 394-409.
get_members(pds) ==
  LET of(model) ==
        IF ~Has(model, "file") \/ ~ODHas(model["file"], pds) THEN Raise("KeyError")
        ELSE IF Has(ODGet(model["file"], pds), "members")
        THEN Ok(ODKeys(ODGet(model["file"], pds)["members"]))
        ELSE Ok(<< >>)
      x == IF has_xmi_model THEN of(xmit) ELSE Ok(<< >>)
      t == IF has_tape_model THEN of(tape) ELSE Ok(<< >>)
  IN  IF check_parsed.kind = "raise" THEN check_parsed
      ELSE IF x.kind = "raise" THEN x
      ELSE IF t.kind = "raise" THEN t
      ELSE Ok(x.val \o t.val)

\* get_volser, lines 562-565: has_tape() asks check_parsed first.
get_volser ==
  IF check_parsed.kind = "raise" THEN check_parsed
  ELSE IF has_tape_model /\ Has(tape, "label") THEN Ok(tape["label"]["volser"])
  ELSE Ok(<< >>)

\* get_pds_info_simple, lines 511-513: `return self.get_file_info_simple(f)`
\* with no f in sight.
get_pds_info_simple(pds) == Raise("NameError")

QueryOps == { "get_files", "has_message", "get_message", "get_owner" }

\* A caller asks the object a question once go() has returned or raised.
Query ==
  /\ Finished
  /\ \E op \in QueryOps :
       /\ lastOp' = [op |-> op, pds |-> << >>, member |-> << >>, accessed |-> << >>]
       /\ result' = CASE op = "get_files" -> get_files
                      [] op = "has_message" -> has_message
                      [] op = "get_message" -> get_message.out
                      [] op = "get_owner" -> get_owner
       /\ xmit' = IF op = "get_message" THEN get_message.xmit ELSE xmit
  /\ UNCHANGED << tape, objectVars, pc, loc, member_blocks, pb, px >>

DatasetOps == { "is_sequential", "is_pds" }

\* A name no dataset of the archives below has ('Z').
UnknownName == << 90 >>

\* A caller asks what kind of dataset a name is, a name of the archive or
\* one that is none, once go() has returned or raised.
AskDataset ==
  /\ Finished
  /\ \E op \in DatasetOps, pds \in DatasetNames \cup { UnknownName } :
       /\ lastOp' = [op |-> op, pds |-> pds, member |-> << >>, accessed |-> << >>]
       /\ result' = IF op = "is_pds" THEN is_pds(pds) ELSE is_sequential(pds)
  /\ UNCHANGED << xmit, tape, objectVars, pc, loc, member_blocks, pb, px >>

\* -------------------------------------------------- inputs of the decoder
SeqUpTo(S, n) == UNION { [1..k -> S] : k \in 0..n }

\* The member names of a directory, in order: 'A', 'B', 'C', ...
MemberName(i) == << 64 + i >>

\* get_members_info, lines 1817-1845, for a directory entry that carries no
\* user data: its name, TTR and alias bit, no ISPF statistics.
DirEntry(ttr, alias) ==
  ("ttr" :> ttr) @@ ("alias" :> alias) @@ ("halfwords" :> 0) @@ ("notes" :> 0)
  @@ ("parms" :> << >>) @@ ("ispf" :> EmptyDict)

DirTtrs == { 1, 2 }

\* The directories: up to MaxMembers entries, each with a TTR and an alias bit.
Directories ==
  { [i \in 1..Len(d) |-> [k |-> MemberName(i), v |-> DirEntry(d[i][1], d[i][2])]] :
      d \in (SeqUpTo(DirTtrs \X BOOLEAN, MaxMembers) \ { << >> }) }

\* A member data block: the 12 bytes F M BB CC TTR KL DLen, then the data.
EncodeBlock(ttr, data) ==
  << 0, 0, 0, 0, 0, 0, 0, 0, ttr, 0, Len(data) \div 256, Len(data) % 256 >> \o data

\* Data of two bytes, 'AB'; a block of RECFM V data, BDW then one record
\* 'A'; data that is no text.
DataFixed == << 193, 194 >>

DataVariable == << 0, 9, 0, 0, 0, 5, 0, 0, 193 >>

DataBinary == << 0, 1 >>

BlockMenu ==
  { EncodeBlock(1, DataFixed), EncodeBlock(1, DataVariable), EncodeBlock(1, << >>),
    EncodeBlock(2, << >>), EncodeBlock(0, << >>) }

\* How many bytes the end of the buffer may lack: none, one of the last
\* block's data or length field, three (the header is cut before its
\* key-length byte).
Cuts == { 0, 1, 3 }

\* The member data: up to MaxBlocks blocks, the end cut short.
MemberBlocks ==
  { PySlice(Join(bs), 0, Len(Join(bs)) - c) :
      bs \in SeqUpTo(BlockMenu, MaxBlocks), c \in Cuts }

\* Member data as IEBCOPY writes it: per member its data blocks and the
\* block of length 0 that ends it.
GroupMenu ==
  { EncodeBlock(1, DataFixed) \o EncodeBlock(1, << >>),
    EncodeBlock(1, DataBinary) \o EncodeBlock(1, << >>),
    EncodeBlock(1, << >>) }

GroupStreams == { Join(gs) : gs \in SeqUpTo(GroupMenu, MaxMembers) }

\* Member data in groups of which some lack the block that ends them.
StreamMenu == GroupMenu \cup { EncodeBlock(1, DataFixed) }

DirStreams == { Join(gs) : gs \in SeqUpTo(StreamMenu, MaxBlocks) }

\* Directories of their own kind: a member that is named 'DELETED1' and
\* its alias; two members that are no aliases at one TTR, and an alias of
\* that TTR.
OddDirectories ==
  { << [k |-> DeletedName(1), v |-> DirEntry(1, FALSE)],
       [k |-> MemberName(2), v |-> DirEntry(1, TRUE)] >>,
    << [k |-> MemberName(1), v |-> DirEntry(1, FALSE)],
       [k |-> MemberName(2), v |-> DirEntry(1, FALSE)],
       [k |-> MemberName(3), v |-> DirEntry(1, TRUE)] >> }

\* The directories without aliases: members 1..n with the TTRs 1..n.
PlainDirectories ==
  { [i \in 1..n |-> [k |-> MemberName(i), v |-> DirEntry(i, FALSE)]] :
      n \in 1..MaxMembers }

\* The state in which process_blocks is entered, from get_xmi_files (line
\* 1332) or get_tape_files (line 1643).
PdsInit(dirs, blocks, recfms, types, kinds, forces, binaries) ==
  \E d \in dirs, mb \in blocks, rf \in recfms, ty \in types, kd \in kinds :
    LET dsn == ("COPYR1" :> [type |-> ty, DS1LRECL |-> 2,
                             DS1RECFM |-> get_recfm(<< rf, 0 >>)])
               @@ ("filetype" :> "pds/directory") @@ ("extension" :> "None")
               @@ ("members" :> d)
        files == << [k |-> PDSNAME, v |-> dsn] >>
    IN  /\ xmit = IF kd = "xmi" THEN ("INMR01" :> EmptyDict) @@ ("file" :> files)
                  ELSE EmptyDict
        /\ tape = IF kd = "tape" THEN ("file" :> files) ELSE EmptyDict
        /\ member_blocks = mb
        /\ force \in forces
        /\ binary \in binaries
        /\ unnum = TRUE
        /\ gui = NoGui
        /\ msg = FALSE
        /\ INMR02_count = IF kd = "xmi" THEN 1 ELSE 0
        /\ INMR03_count = IF kd = "xmi" THEN 1 ELSE 0
        /\ filelocation = 1
        /\ file_object = << >>
        /\ xmit_object = << >>
        /\ tape_object = << >>
        /\ runs = FirstRun(<< >>)
        /\ pc = "process_blocks"
        /\ loc = 0
        /\ pb = [NoBlocks EXCEPT !.dsn = PDSNAME,
                                  !.of = IF kd = "xmi" THEN "xmit" ELSE "tape"]
        /\ px = NoLocals
        /\ lastOp = [op |-> "go", pds |-> << >>, member |-> << >>, accessed |-> << >>]
        /\ result = Ok("None")

\* The archives the facade is asked about: every directory, member data in
\* whole groups, RECFM FB (0x90), in an XMIT file and on a tape.
Init ==
  PdsInit(Directories, GroupStreams, { 144 }, { "PDS" },
          { "xmi", "tape" }, BOOLEAN, { FALSE })

\* The member data the decoder is run on: any blocks, cut short or not,
\* RECFM FB (0x90), VB (0x50) and U (0xC0), PDS and PDSE, under a directory
\* without aliases; and groups of blocks, closed or not, under every
\* directory.
InitPds ==
  \/ PdsInit(PlainDirectories, MemberBlocks, { 144, 80, 192 }, { "PDS", "PDSE" },
             { "xmi" }, { FALSE }, { FALSE })
  \/ PdsInit(Directories \cup OddDirectories, DirStreams, { 144 }, { "PDS" },
             { "xmi" }, { FALSE }, { FALSE })

ReadOps ==
  { "get_member_decoded", "get_member_binary", "get_member_text", "get_member_info" }

ReadResult(op, pds, member) ==
  CASE op = "get_member_decoded" -> get_member_decoded(pds, member)
    [] op = "get_member_binary" -> get_member_binary(pds, member)
    [] op = "get_member_text" -> get_member_text(pds, member)
    [] op = "get_member_info" -> get_member_info(pds, member)

ReadMember(op, pds, member) ==
  CASE op = "get_member_decoded" -> decoded_member(pds, member)
    [] op = "get_member_binary" -> binary_member(pds, member)
    [] op = "get_member_text" -> text_member(pds, member)
    [] op = "get_member_info" -> info_member(pds, member)

\* A caller reads a member of the parsed archive.
ReadAMember ==
  /\ pc = "parsed"
  /\ \E op \in ReadOps, i \in 1..Len(Members(PDSNAME)) :
       LET member == Members(PDSNAME)[i].k
       IN  /\ lastOp' = [op |-> op, pds |-> PDSNAME, member |-> member,
                         accessed |-> ReadMember(op, PDSNAME, member)]
           /\ result' = ReadResult(op, PDSNAME, member)
  /\ UNCHANGED << xmit, tape, objectVars, pc, loc, member_blocks, pb, px >>

SizeOps == { "get_member_size", "get_member_info_simple" }

\* A caller asks for the size of a member of the parsed archive.
ReadASize ==
  /\ pc = "parsed"
  /\ \E op \in SizeOps, i \in 1..Len(Members(PDSNAME)) :
       LET member == Members(PDSNAME)[i].k
       IN  /\ lastOp' = [op |-> op, pds |-> PDSNAME, member |-> member,
                         accessed |-> decoded_member(PDSNAME, member)]
           /\ result' = IF op = "get_member_size"
                        THEN get_member_size(PDSNAME, member)
                        ELSE get_member_info_simple(PDSNAME, member)
  /\ UNCHANGED << xmit, tape, objectVars, pc, loc, member_blocks, pb, px >>

Next == PB_BuildTtrs \/ PB_Block \/ PB_Trailing \/ ReadAMember

Spec == Init /\ [][Next]_vars

NextPds == PB_BuildTtrs \/ PB_Block \/ PB_Trailing

SpecPds == InitPds /\ [][NextPds]_vars

\* ------------------------------------------------- inputs of the parser
\* n as two bytes, big-endian.
Half(n) == << n \div 256, n % 256 >>

\* A text unit: key, number of items, and each item with its length.
TextUnit(key, items) ==
  Half(key) \o Half(Len(items))
    \o Join([i \in 1..Len(items) |-> Half(Len(items[i])) \o items[i]])

\* 'INMR0n' in cp1140.
EB_INMR(n) == << 201, 213, 212, 217, 240, 240 + n >>

\* A control segment (flags 0xE0) of the type named, and a data segment.
ControlSegment(n, body) == << 8 + Len(body), 224 >> \o EB_INMR(n) \o body

DataSeg(flag, data) == << 2 + Len(data), flag >> \o data

\* INMFUID 'U' and INMFTIME '20200102030405'.
SegINMR01 ==
  ControlSegment(1,
    TextUnit(4114, << << 228 >> >>)
    \o TextUnit(4132, << << 242, 240, 242, 240, 240, 241, 240, 242, 240, 243, 240,
                           244, 240, 245 >> >>))

\* INMDSORG PS, INMLRECL 2, INMRECFM FB.
UnitsOfFile ==
  TextUnit(60, << << 64, 0 >> >>) \o TextUnit(66, << << 0, 2 >> >>)
  \o TextUnit(73, << << 144, 0 >> >>)

\* The INMR02 of the file 'A', and the INMR02 of a message (INMTERM).
SegINMR02 == ControlSegment(2, << 0, 0, 0, 1 >> \o UnitsOfFile \o TextUnit(2, << << 193 >> >>))

\* The INMR02 of the file 'A' with the dataset name before the other text
\* units.
SegINMR02NameFirst ==
  ControlSegment(2, << 0, 0, 0, 1 >> \o TextUnit(2, << << 193 >> >>) \o UnitsOfFile)

\* The INMR02 of a second file, 'B'.
SegINMR02B == ControlSegment(2, << 0, 0, 0, 1 >> \o UnitsOfFile \o TextUnit(2, << << 194 >> >>))

SegINMR02Message == ControlSegment(2, << 0, 0, 0, 1 >> \o UnitsOfFile \o TextUnit(40, << >>))

SegINMR03 == ControlSegment(3, UnitsOfFile)

SegINMR06 == ControlSegment(6, << >>)

\* Data segments: a whole record 'AB', the first segment 'A' of a record,
\* the last segment 'B' of a record.
DataMenu == { DataSeg(192, << 193, 194 >>), DataSeg(128, << 193 >>), DataSeg(64, << 194 >>) }

\* The message 'HI' in one segment.
SegMessage == DataSeg(192, << 200, 201 >>)

\* A PDS as IEBCOPY unloads it.  COPYR1: the eye-catcher, DSORG PO, LRECL
\* 2, RECFM FB, 56 bytes; an empty COPYR2; one directory block, the member
\* 'A' at TTR 1 and the end of the directory; the blocks of the member, its
\* data 'AB'.
PdsCOPYR1 == << 0, 202, 109, 15, 2, 0, 0, 0, 0, 2, 144, 0 >> \o Zeroes(44)

\* The entry of 'A' without user data, and with ISPF statistics: version
\* 01.02, made on day 061 of 2020, changed that day at 12:30:45, one line,
\* user 'U'.
EntryPlain == << 193, 64, 64, 64, 64, 64, 64, 64, 0, 0, 1, 0 >>

EntryIspf ==
  << 193, 64, 64, 64, 64, 64, 64, 64, 0, 0, 1, 15 >>
    \o << 1, 2, 0, 69, 1, 32, 6, 31, 1, 32, 6, 31, 18, 48, 0, 1, 0, 1, 0, 0 >>
    \o << 228, 64, 64, 64, 64, 64, 64, 64, 0, 0 >>

PdsDirectory(entry) == Zeroes(20) \o Half(Len(entry) + 10) \o entry \o SENTINEL

PdsMembers == EncodeBlock(1, DataFixed) \o EncodeBlock(1, << >>)

PdsXmiMember == EncodeBlock(1, PySlice(SegINMR01, 0, 10)) \o EncodeBlock(1, << >>)

\* The segments of an XMIT file of one dataset, without and with a message
\* before it, of one that carries the PDS, and of one that carries the
\* file 'A' (the record 'AB') and then the file 'B' (the record 'CD'); of
\* one whose INMR02 names the dataset first; of one whose message comes
\* after its dataset; of one whose dataset is no text; of a PDS whose
\* member is itself the beginning of an XMIT file.
XmiFiles ==
  { << SegINMR01, SegINMR02, SegINMR03 >> \o ds \o << SegINMR06 >> :
      ds \in SeqUpTo(DataMenu, MaxData) }
  \cup
  { << SegINMR01, SegINMR02, SegINMR03, DataSeg(192, PdsCOPYR1), DataSeg(192, << 0 >>),
       DataSeg(192, PdsDirectory(EntryIspf)), DataSeg(192, PdsMembers), SegINMR06 >> }
  \cup
  { << SegINMR01, SegINMR02Message, SegINMR03, SegMessage, SegINMR02, SegINMR03 >>
      \o ds \o << SegINMR06 >> : ds \in SeqUpTo(DataMenu, MaxData) }
  \cup
  { << SegINMR01, SegINMR02, SegINMR03, DataSeg(192, << 193, 194 >>),
       SegINMR02B, SegINMR03, DataSeg(192, << 195, 196 >>), SegINMR06 >>,
    << SegINMR01, SegINMR02NameFirst, SegINMR03, DataSeg(192, << 193, 194 >>),
       SegINMR06 >>,
    << SegINMR01, SegINMR02, SegINMR03, DataSeg(192, << 193, 194 >>),
       SegINMR02Message, SegINMR03, SegMessage, SegINMR06 >>,
    << SegINMR01, SegINMR02, SegINMR03, DataSeg(192, DataBinary), SegINMR06 >>,
    << SegINMR01, SegINMR02, SegINMR03, DataSeg(192, PdsCOPYR1), DataSeg(192, << 0 >>),
       DataSeg(192, PdsDirectory(EntryPlain)), DataSeg(192, PdsXmiMember), SegINMR06 >> }

\* The first segments of such files, whole or with the end cut short.
XmiInputs ==
  UNION { { PySlice(Join(SubSeq(f, 1, k)), 0, Len(Join(SubSeq(f, 1, k))) - c) :
              k \in 1..Len(f), c \in { 0, 1 } } : f \in XmiFiles }

\* An INMR01 and a control segment of no known type whose length byte is
\* 0, or 1: less than the two bytes of its own header; an INMR01 whose
\* text unit, INMFUID or one of the unknown key 9, has no items.
OddXmi ==
  { SegINMR01 \o << 0, 224 >> \o Zeroes(6), SegINMR01 \o << 1, 224 >> \o Zeroes(6),
    ControlSegment(1, TextUnit(4114, << >>)), ControlSegment(1, TextUnit(9, << >>)) }

\* Bytes that are no XMIT file.
ShortInputs == SeqUpTo({ 0, 1 }, MaxShort)

\* A block of a tape image: its length, the length of the block before
\* (left 0, nothing reads it), the flags, the payload.
TapeBlock(flags, payload) ==
  << Len(payload) % 256, Len(payload) \div 256, 0, 0 >> \o Half(flags) \o payload

\* A whole record in one block, and a tape mark.
TapeRecord(payload) == TapeBlock(NEWREC + ENDREC, payload)

TapeMark == TapeBlock(EOF, << >>)

Blanks(n) == [i \in 1..n |-> 64]

\* The labels, 80 bytes of cp1140: VOL1 of the volume 'A', owner 'U';
\* HDR1 of the dataset 'A', made and expiring on ' 20001', or with blank
\* dates; HDR2 with the RECFM given and LRECL 2.
LabelVOL1 ==
  << 229, 214, 211, 241, 193 >> \o Blanks(36) \o << 228 >> \o Blanks(38)

LabelDate == << 64, 242, 240, 240, 240, 241 >>

LabelHDR1 ==
  << 200, 196, 217, 241, 193 >> \o Blanks(36) \o LabelDate \o LabelDate
    \o << 240 >> \o Blanks(26)

LabelHDR1Blank == << 200, 196, 217, 241, 193 >> \o Blanks(75)

\* A user label 'UTL1', and a record of six bytes, 'VOL1AB'.
LabelUTL == << 228, 227, 211, 241 >> \o Blanks(76)

DataVOL1 == << 229, 214, 211, 241 >> \o DataFixed

LabelHDR2(recfm) ==
  << 200, 196, 217, 242, recfm >> \o Blanks(9) \o << 242 >> \o Blanks(65)

\* The PDS as a tape dataset: each record behind its descriptor words.
Described(record) == Half(Len(record) + 8) \o << 0, 0 >> \o Half(Len(record) + 8)
                       \o << 0, 0 >> \o record

TapePds ==
  Described(PdsCOPYR1) \o Described(<< >>) \o Described(PdsDirectory(EntryPlain))
    \o Described(PdsMembers)

\* The labels before a dataset: none, or HDR1 and HDR2 (RECFM F, V, U) and
\* the tape mark after them.
LabelGroups ==
  { << >> } \cup
  { TapeRecord(LabelHDR1) \o TapeRecord(LabelHDR2(r)) \o TapeMark : r \in { 198, 229, 228 } }

\* A dataset and what ends it: the text 'AB' and a tape mark, the PDS and
\* a tape mark, or 'AB' in a block that is flagged ENDREC alone.
DataGroups ==
  { TapeRecord(DataFixed) \o TapeMark, TapeRecord(TapePds) \o TapeMark,
    TapeBlock(ENDREC, DataFixed) }

\* Tape images: a volume label or none, labels or none, datasets.
TapeImages ==
  { v \o l \o Join(ds) : v \in { << >>, TapeRecord(LabelVOL1) }, l \in LabelGroups,
                          ds \in SeqUpTo(DataGroups, MaxData) }

\* Tape images the writers of tapes do not make: a tape mark that carries
\* a label; a tape mark that is flagged NEWREC too; an HDR1 whose dates
\* are blank; a PDS whose directory, or whose member data, is a block
\* with the length 0 in its descriptor word; compressed blocks that hold
\* no stream; a tape cut in its last block; two datasets whose HDR1 labels
\* have the same DSN; a volume label that comes after the first dataset.
OddTapes ==
  { TapeBlock(EOF, LabelVOL1),
    TapeRecord(DataFixed) \o TapeMark \o TapeRecord(LabelVOL1) \o TapeMark
      \o TapeRecord(DataFixed) \o TapeMark,
    TapeRecord(LabelHDR1) \o TapeRecord(LabelHDR2(198)) \o TapeMark
      \o TapeRecord(DataFixed) \o TapeMark
      \o TapeRecord(LabelHDR1) \o TapeRecord(LabelHDR2(198)) \o TapeMark
      \o TapeRecord(DataVariable) \o TapeMark,
    TapeRecord(DataFixed) \o TapeBlock(NEWREC + EOF, << >>),
    TapeRecord(LabelUTL) \o TapeMark,
    TapeRecord(DataVOL1) \o TapeMark,
    TapeRecord(LabelHDR1Blank) \o TapeMark,
    TapeBlock(NEWREC + ENDREC + BZIP2, << >>) \o TapeMark,
    TapeBlock(NEWREC + ENDREC + BZIP2, DataFixed) \o TapeMark,
    TapeBlock(NEWREC + ENDREC + ZLIB, DataFixed) \o TapeMark,
    TapeRecord(Described(PdsCOPYR1) \o Described(<< >>) \o Zeroes(8)) \o TapeMark,
    TapeRecord(Described(PdsCOPYR1) \o Described(<< >>)
               \o Described(PdsDirectory(EntryPlain)) \o Zeroes(8)) \o TapeMark,
    PySlice(TapeRecord(DataFixed), 0, 7),
    PySlice(TapeRecord(TapePds) \o TapeMark, 0, 160) \o TapeMark }

\* A directory entry of the block b, its i-th: the name, the TTR 1, and h
\* halfwords of user data.
EntryBytes(b, i, h) ==
  << 193 + b, 240 + (i \div 10), 240 + (i % 10) >> \o Blanks(5) \o << 0, 0, 1, h >>
    \o Zeroes(2 * h)

DirEntries(b, n) == Join([i \in 1..n |-> EntryBytes(b, i, 0)])

\* What a directory block holds.  "full": entries that fill its 254 bytes;
\* "even": entries of 252 bytes; "short": one entry; "last": one entry and
\* the end of the directory; "end": the end of the directory alone;
\* "fullend": entries and the end of the directory, 254 bytes together.
BlockBody(b, kind) ==
  CASE kind = "full" -> DirEntries(b, 20) \o EntryBytes(b, 21, 1)
    [] kind = "even" -> DirEntries(b, 21)
    [] kind = "short" -> DirEntries(b, 1)
    [] kind = "last" -> DirEntries(b, 1) \o SENTINEL
    [] kind = "end" -> SENTINEL
    [] kind = "fullend" -> DirEntries(b, 19) \o EntryBytes(b, 20, 3) \o SENTINEL

\* A directory block of 276 bytes: count 0, key length 8, data length
\* 256, the key, the bytes in use (the halfword counts itself), the rest
\* of the block zeroes.
DirBlock(b, kind) ==
  Zeroes(8) \o << 0, 8, 1, 0 >> \o Zeroes(8) \o Half(Len(BlockBody(b, kind)) + 2)
    \o BlockBody(b, kind) \o Zeroes(254 - Len(BlockBody(b, kind)))

\* A tape that holds one PDS, its directory of the blocks given.
DirTape(kinds) ==
  TapeRecord(Described(PdsCOPYR1) \o Described(<< >>)
             \o Join([i \in 1..Len(kinds) |-> Described(DirBlock(i - 1, kinds[i]))])
             \o Described(PdsMembers))
    \o TapeMark

\* Directories of up to MaxDirBlocks blocks and the block that ends them.
DirTapes ==
  { DirTape(ks \o << l >>) : ks \in SeqUpTo({ "full", "even", "short" }, MaxDirBlocks),
                             l \in { "last", "end", "fullend" } }

\* Tapes in blocks of flags and payload: the dataset 'AB' alone, behind
\* its labels, and behind a volume label.
Blk(flags, payload) == [flags |-> flags, payload |-> payload]

BlockTapes ==
  { << Blk(NEWREC + ENDREC, DataFixed), Blk(EOF, << >>) >>,
    << Blk(NEWREC + ENDREC, LabelHDR1), Blk(NEWREC + ENDREC, LabelHDR2(198)),
       Blk(EOF, << >>), Blk(NEWREC + ENDREC, DataFixed), Blk(EOF, << >>) >>,
    << Blk(NEWREC + ENDREC, LabelVOL1), Blk(EOF, << >>),
       Blk(NEWREC + ENDREC, DataFixed), Blk(EOF, << >>) >> }

\* The image of the blocks, every payload that is not empty compressed
\* as the flag z says (0: none is).
ImageOf(blocks, z) ==
  Join([i \in 1..Len(blocks) |->
          IF z = 0 \/ blocks[i].payload = << >>
          THEN TapeBlock(blocks[i].flags, blocks[i].payload)
          ELSE TapeBlock(blocks[i].flags + z,
                         IF z = BZIP2 THEN bz2_compress(blocks[i].payload)
                         ELSE zlib_compress(blocks[i].payload))])

TapeInputs == TapeImages \cup OddTapes

\* What may follow the input: nothing, or a record 'ZZ' and an INMR06.
Tails == { << >>, DataSeg(192, << 233, 233 >>) \o SegINMR06 }

\* An object is made and given the bytes; a second run will be given
\* others.
XmiInit(first, second, f) ==
    /\ NewXMIT(first, f, FALSE)
    /\ runs = FirstRun(second)
    /\ pc = "go"
    /\ loc = 0
    /\ member_blocks = << >>
    /\ pb = NoBlocks
    /\ px = NoLocals
    /\ lastOp = [op |-> "go", pds |-> << >>, member |-> << >>, accessed |-> << >>]
    /\ result = Ok("None")

\* An XMIT file of one dataset 'A' with the record 'AB', and a tape of
\* one record without labels: the two runs of an object that is given
\* an archive of one kind and then one of the other.
MixedRuns ==
  LET xmi == Join(<< SegINMR01, SegINMR02, SegINMR03, DataSeg(192, << 193, 194 >>),
                     SegINMR06 >>)
      awstape == TapeRecord(DataFixed) \o TapeMark
  IN  { << xmi, awstape >>, << awstape, xmi >> }

\* The second run is given the same bytes up to what follows them, or the
\* same tape with its blocks compressed, or an archive of the other kind.
InitXmi ==
  \/ \E runs2 \in MixedRuns : XmiInit(runs2[1], runs2[2], FALSE)
  \/ \E core \in XmiInputs \cup OddXmi \cup ShortInputs \cup TapeInputs,
        t1 \in Tails, t2 \in Tails, f \in BOOLEAN :
       XmiInit(core \o t1, core \o t2, f)
  \/ \E blocks \in BlockTapes, z \in { ZLIB, BZIP2 }, f \in BOOLEAN :
       XmiInit(ImageOf(blocks, 0), ImageOf(blocks, z), f)

NextXmi ==
  \/ Go
  \/ PX_Enter
  \/ PX_Segment
  \/ PX_End
  \/ TU_Unit
  \/ TU_Return
  \/ GX_Files
  \/ PB_BuildTtrs
  \/ PB_Block
  \/ PB_Trailing
  \/ PT_Enter
  \/ PT_Block
  \/ PT_End
  \/ GT_File
  \/ GT_DirBlock
  \/ GT_Members
  \/ GT_MemberBlock
  \/ GT_Process
  \/ GT_Return
  \/ SecondObject
  \/ SameObject
  \/ Query
  \/ AskDataset

SpecXmi == InitXmi /\ [][NextXmi]_vars

\* The tapes whose directories are read, each run once.
InitDir == \E t \in DirTapes : XmiInit(t, t, FALSE)

NextDir ==
  \/ Go
  \/ PT_Enter
  \/ PT_Block
  \/ PT_End
  \/ GT_File
  \/ GT_DirBlock
  \/ GT_Members
  \/ GT_MemberBlock
  \/ GT_Process
  \/ PB_BuildTtrs
  \/ PB_Block
  \/ PB_Trailing
  \/ GT_Return

SpecDir == InitDir /\ [][NextDir]_vars

\* The archives whose sizes are asked for: the same in an XMIT file,
\* opened with binary=False and with binary=True.
InitSize ==
  PdsInit(Directories, GroupStreams, { 144 }, { "PDS" }, { "xmi" }, { FALSE }, BOOLEAN)

NextSize == PB_BuildTtrs \/ PB_Block \/ PB_Trailing \/ ReadAMember \/ ReadASize

SpecSize == InitSize /\ [][NextSize]_vars

\* ------------------------------------------------------- aliases (C1, C2)
\* Two outcomes are the same: both raise, or both return the same value.
SameOutcome(a, b) == a.kind = b.kind /\ (a.kind = "ok" => a.val = b.val)

AliasesOf(pds) ==
  { Members(pds)[i].k : i \in { j \in 1..Len(Members(pds)) : Members(pds)[j].v["alias"] } }

C2_ReadsResolveAliases ==
  (lastOp.op \in ReadOps /\ is_alias(lastOp.pds, lastOp.member)) =>
    IF get_alias(lastOp.pds, lastOp.member) = NONE
    THEN result.kind = "raise" /\ result.val = "Member Alias target not found"
    ELSE lastOp.accessed = get_alias(lastOp.pds, lastOp.member)

\* ----------------------------------------------- the end of an XMIT file (C4)
\* Where the first INMR06 control segment of the bytes ends, going from
\* segment to segment by the length bytes; -1 when there is none.
RECURSIVE EndOfINMR06(_, _)
EndOfINMR06(obj, at) ==
  LET section_length == get_int(PySlice(obj, at, at + 1))
      flag == get_int(PySlice(obj, at + 1, at + 2))
      name == PySlice(obj, at + 2, Min(at + 8, at + section_length))
  IN  IF at >= Len(obj) \/ section_length = 0 THEN 0 - 1
      ELSE IF Bit(flag, 32) /\ name = EB_INMR(6) /\ at + section_length <= Len(obj)
      THEN at + section_length
      ELSE EndOfINMR06(obj, at + section_length)

\* Two inputs are the same up to and including their first INMR06.
SameThroughINMR06(a, b) ==
  LET e == EndOfINMR06(a, 0)
  IN  e >= 0 /\ e = EndOfINMR06(b, 0) /\ PySlice(a, 0, e) = PySlice(b, 0, e)

\* go() has just ended on a second object, made as the first was.
SecondRunEnded == runs.n = 2 /\ runs.how = "fresh" /\ Finished /\ lastOp.op = "go"

\* What go() left is what the run before left.
SameAsFirstRun ==
  /\ pc = runs.pc
  /\ SameOutcome(result, runs.result)
  /\ xmit = runs.xmit
  /\ tape = runs.tape

\* C4: two XMIT inputs that are the same up to and including their first
\* INMR06 control segment parse (parse_xmi, then get_xmi_files) to equal
\* archives, with the same outcome: no byte after the INMR06 counts.
C4_NothingAfterINMR06 ==
  (SecondRunEnded /\ SameThroughINMR06(runs.first, file_object)) => SameAsFirstRun

\* Two inputs that differ after their INMR06 were both parsed into a file.
C4_Witness ==
  /\ SecondRunEnded
  /\ SameThroughINMR06(runs.first, file_object)
  /\ runs.first # file_object
  /\ pc = "parsed"
  /\ Has(xmit, "file")

\* ---------------------------------------------------- parsing twice (C5)
\* C5: go() run twice on the same bytes, on two objects made alike or
\* twice on one object, leaves the same model with the same outcome.
C5_ParsingTwiceIsEqual ==
  (runs.n = 2 /\ Finished /\ lastOp.op = "go" /\ runs.first = file_object)
    => SameAsFirstRun

\* ------------------------------------------------- a rejected input (C6)
\* The functions that walk the container.
WalkSites ==
  { "parse_xmi", "text_units", "parse_INMR01", "parse_INMR02", "parse_INMR03",
    "parse_tape" }

NotLoaded(out) == out.kind = "raise" /\ out.val = "No XMI or Virtual Tape loaded."

\* C6: when go() has raised out of the walk over the container, no archive
\* is there: the queries answer as they do on an object that parsed nothing.
C6_RejectedLeavesNoArchive ==
  (pc = "raised" /\ lastOp.op = "go" /\ result.where \in WalkSites) =>
    /\ NotLoaded(get_files)
    /\ NotLoaded(get_owner)
    /\ NotLoaded(has_message)
    /\ NotLoaded(get_message.out)

\* ----------------------------------------------- a length past the end (C7)
\* C7: when the length of a segment runs past the end of the bytes,
\* parse_xmi does not go on with the shorter segment: go() fails.
C7_OverrunIsAnError == (px.overran /\ lastOp.op = "go" /\ Finished) => pc = "raised"

\* ------------------------------------------------------- the dispatch (C8)
IsXmiHeader == decode(PySlice(file_object, 2, 8)) = STR_INMR01

IsTapeHeader == Len(file_object) >= 4 /\ get_int(PySlice(file_object, 2, 4)) = 0

\* C8: go() hands the bytes to parse_xmi iff bytes 2..8 decode to
\* 'INMR01', otherwise to parse_tape iff the two bytes 2..4 are there and
\* are 0, and otherwise, bytes too short for that field too, rejects them.
C8_Dispatch ==
  lastOp.op = "go" =>
    /\ pc = "parse_xmi_enter" => IsXmiHeader
    /\ pc = "parse_tape_enter" => ~IsXmiHeader /\ IsTapeHeader
    /\ (pc = "raised" /\ result.where = "go") => ~IsXmiHeader /\ ~IsTapeHeader

\* ------------------------------------------------- queries and the model (C9)
\* C9: a query made once go() has ended leaves self.xmit and self.tape as
\* they were.
C9_QueriesChangeNothing ==
  [][(Finished /\ pc' = pc) => (xmit' = xmit /\ tape' = tape)]_vars

\* ------------------------------------------------------ member payload (C3)
RECURSIVE Sum(_)
Sum(ns) == IF ns = << >> THEN 0 ELSE Head(ns) + Sum(Tail(ns))

\* The members process_blocks has stored data for, and what it stored.
StoredMembers == DOMAIN pb.attributed

StoredData(m) == ODGet(Members(PDSNAME), m)["data"]

IsVariable == InStr("V", Dsn["COPYR1"]["DS1RECFM"])

\* Every block given to m lay wholly inside the buffer.
BlocksWhole(m) ==
  \A i \in 1..Len(pb.attributed[m].blocks) :
    Len(pb.attributed[m].blocks[i]) = pb.attributed[m].declared[i]

TextOfBinaryAsked ==
  /\ lastOp.op = "get_member_text"
  /\ ~force
  /\ Has(ODGet(Members(lastOp.pds), lastOp.member), "data")
  /\ ~Has(ODGet(Members(lastOp.pds), lastOp.member), "text")

C11_DatasetKinds ==
  (pc = "parsed" /\ lastOp.op \in DatasetOps) =>
    IF lastOp.pds \in DatasetNames
    THEN /\ is_pds(lastOp.pds).kind = "ok"
         /\ is_sequential(lastOp.pds).kind = "ok"
         /\ is_pds(lastOp.pds).val # is_sequential(lastOp.pds).val
    ELSE result.kind = "raise"

\* ------------------------------------------- the payload of aliases (C12)
\* The members of the PDS whose alias flag is set.
StillAliases ==
  { i \in 1..Len(Members(PDSNAME)) : Members(PDSNAME)[i].v["alias"] }

\* C12: while and after process_blocks decodes the PDS, a member whose
\* alias flag is set holds no payload of its own, no data and no text.
C12_AliasesHoldNoPayload ==
  pc \in { "process_blocks", "pb_loop", "parsed" } =>
    \A i \in StillAliases :
      /\ ~Has(Members(PDSNAME)[i].v, "data")
      /\ ~Has(Members(PDSNAME)[i].v, "text")

\* The PDS is decoded, a member is still an alias, and the member it
\* shares its TTR with was given a payload.
C12_Witness ==
  /\ pc = "parsed"
  /\ \E i \in StillAliases :
       \E j \in 1..Len(Members(PDSNAME)) :
         /\ ~Members(PDSNAME)[j].v["alias"]
         /\ Has(Members(PDSNAME)[j].v, "ttr")
         /\ Members(PDSNAME)[j].v["ttr"] = Members(PDSNAME)[i].v["ttr"]
         /\ Has(Members(PDSNAME)[j].v, "data")
         /\ Len(Members(PDSNAME)[j].v["data"]) > 0

\* ------------------------------------------- the target of an alias (C13)
\* The members that are no aliases and have the TTR of the member at i.
TargetsOf(i) ==
  { j \in 1..Len(Members(PDSNAME)) :
      /\ ~Members(PDSNAME)[j].v["alias"]
      /\ Has(Members(PDSNAME)[j].v, "ttr")
      /\ Members(PDSNAME)[j].v["ttr"] = Members(PDSNAME)[i].v["ttr"] }

\* C13: after process_blocks has decoded the PDS, every member whose alias
\* flag is set has the TTR of exactly one member that is no alias, and
\* get_alias returns that member.
C13_AliasHasOneTarget ==
  pc = "parsed" =>
    \A i \in StillAliases :
      /\ Cardinality(TargetsOf(i)) = 1
      /\ \A j \in TargetsOf(i) :
           get_alias(PDSNAME, Members(PDSNAME)[i].k) = Members(PDSNAME)[j].k

\* ------------------------------------------------ DELETED members (C17)
\* The names the directory had when process_blocks was handed it.
DirectoryNames == { pb.directory[i].k : i \in 1..Len(pb.directory) }

\* The entry the directory had at i is still there, with what the
\* directory said of the member.
EntryKept(i) ==
  /\ i <= Len(Members(PDSNAME))
  /\ Members(PDSNAME)[i].k = pb.directory[i].k
  /\ \A f \in (DOMAIN pb.directory[i].v) \ { "alias" } :
       /\ Has(Members(PDSNAME)[i].v, f)
       /\ Members(PDSNAME)[i].v[f] = pb.directory[i].v[f]

\* C17: when process_blocks has met more groups of member data than the
\* TTR table has members, the k-th group too many is held by a new member
\* DELETEDk, and every member of the directory has kept its entry.
C17_ExtraGroupsAreDeleted ==
  (pc \in { "pb_loop", "parsed" } /\ pb.deleted_num > 1) =>
    /\ \A k \in 1..(pb.deleted_num - 1) :
         /\ ODHas(Members(PDSNAME), DeletedName(k))
         /\ DeletedName(k) \notin DirectoryNames
    /\ \A i \in 1..Len(pb.directory) : EntryKept(i)

\* ------------------------------------------------ the sizes reported (C14)
\* The size the call made last has reported.
ReportedSize ==
  IF lastOp.op = "get_member_size" THEN result.val ELSE result.val["size"]

\* The length of the member's text if it has one and binary is off, of its
\* bytes otherwise.
ExpectedSize(f) ==
  IF Has(f, "text") /\ ~binary THEN Len(f["text"])
  ELSE IF Has(f, "data") THEN Len(f["data"])
  ELSE 0

\* C14: the size get_member_info, get_member_info_simple and
\* get_member_size report of a member that is no alias is the length of
\* its text when it was classified as text and binary is off, and the
\* length of its bytes otherwise.
C14_SizesReported ==
  (/\ lastOp.op \in SizeOps \cup { "get_member_info" }
   /\ result.kind = "ok"
   /\ ~is_alias(lastOp.pds, lastOp.member)) =>
    ReportedSize = ExpectedSize(ODGet(Members(lastOp.pds), lastOp.member))

\* ---------------------------------------------------------- dates (C15)
\* 'YYYY-MM-DDTHH:MM:SS.ffffff'
IsIsoDate(s) ==
  /\ Len(s) = 26
  /\ \A i \in 1..26 :
       IF i \in { 5, 8 } THEN s[i] = 45
       ELSE IF i = 11 THEN s[i] = 84
       ELSE IF i \in { 14, 17 } THEN s[i] = 58
       ELSE IF i = 20 THEN s[i] = 46
       ELSE s[i] \in 48..57

IsDate(v) == v = NONE \/ IsIsoDate(v)

\* The dates of the members of the datasets of a model.
MemberDatesOk(model) ==
  Has(model, "file") =>
    \A i \in 1..Len(model["file"]) :
      Has(model["file"][i].v, "members") =>
        \A j \in 1..Len(model["file"][i].v["members"]) :
          LET f == model["file"][i].v["members"][j].v
          IN  (Has(f, "ispf") /\ DOMAIN f["ispf"] # {}) =>
                IsDate(f["ispf"]["createdate"]) /\ IsDate(f["ispf"]["modifydate"])

\* go() has raised where it reads a date: parse_INMR01 at INMFTIME,
\* parse_tape at the dates of the HDR1 label at loc.
AbortedAtDate ==
  /\ pc = "raised"
  /\ "where" \in DOMAIN result
  /\ \/ /\ result.where = "parse_INMR01"
        /\ Has(px.tu, "INMFTIME")
        /\ inmftime_iso(px.tu["INMFTIME"]).kind = "raise"
     \/ /\ result.where = "parse_tape"
        /\ BlockAt(loc).eyecatcher = STR_HDR1
        /\ BlockAt(loc).cur_blocksize = 80
        /\ \/ get_tape_date(PySlice(decode(BlockAt(loc).payload), 41, 47)).kind = "raise"
           \/ get_tape_date(PySlice(decode(BlockAt(loc).payload), 47, 53)).kind = "raise"

\* C15: every date of the archive (INMFTIME, the dates of an HDR1 label,
\* the ISPF dates of a member) is a whole ISO-8601 string with
\* microseconds or None, and go() never raises where it reads a date.
C15_DatesAreIsoOrNone ==
  /\ ~AbortedAtDate
  /\ (pc # "raised" /\ Has(xmit, "INMR01") /\ Has(xmit["INMR01"], "INMFTIME")) =>
       IsDate(xmit["INMR01"]["INMFTIME"].v)
  /\ Has(tape, "file") =>
       \A i \in 1..Len(tape["file"]) :
         Has(tape["file"][i].v, "HDR1") =>
           /\ IsDate(tape["file"][i].v["HDR1"]["createdate"])
           /\ IsDate(tape["file"][i].v["HDR1"]["expirationdate"])
  /\ MemberDatesOk(xmit)
  /\ MemberDatesOk(tape)

\* ------------------------------------------------ compressed tapes (C16)
\* The flags without those of compression.
PlainFlags(flags) ==
  flags - (IF Bit(flags, BZIP2) THEN BZIP2 ELSE 0) - (IF Bit(flags, ZLIB) THEN ZLIB ELSE 0)

\* The tape image with the payload of every compressed block stored as
\* it is once decompressed; an image that holds a block no library reads
\* is left as it is.
RECURSIVE Uncompressed(_)
Uncompressed(image) ==
  IF Len(image) < 6 THEN image
  ELSE IF Decompressed(BlockIn(image, 0)).kind = "raise" THEN image
  ELSE TapeBlock(PlainFlags(BlockIn(image, 0).flags), Decompressed(BlockIn(image, 0)).val)
         \o Uncompressed(PyFrom(image, 6 + BlockIn(image, 0).cur_blocksize))

\* What the claim names of a tape model: the volume label, and of every
\* dataset its name, labels and bytes.
TapeArchive(t) ==
  [label |-> IF Has(t, "label") THEN t["label"] ELSE EmptyDict,
   file |-> IF Has(t, "file")
            THEN [i \in 1..Len(t["file"]) |->
                    [name |-> t["file"][i].k,
                     data |-> t["file"][i].v["data"],
                     HDR1 |-> IF Has(t["file"][i].v, "HDR1") THEN t["file"][i].v["HDR1"] ELSE EmptyDict,
                     HDR2 |-> IF Has(t["file"][i].v, "HDR2") THEN t["file"][i].v["HDR2"] ELSE EmptyDict,
                     UTL |-> IF Has(t["file"][i].v, "UTL") THEN t["file"][i].v["UTL"] ELSE << >>]]
            ELSE << >>]

\* C16: a tape image whose blocks are stored compressed (ZLIB or BZIP2,
\* the flag set) is parsed into the archive of the image whose blocks
\* hold the same payloads uncompressed: the same dataset names, labels,
\* volume label and bytes, with the same outcome.
C16_CompressedTapeReadsTheSame ==
  (/\ SecondRunEnded
   /\ runs.first # file_object
   /\ Uncompressed(file_object) = runs.first) =>
    /\ pc = runs.pc
    /\ SameOutcome(result, runs.result)
    /\ TapeArchive(tape) = TapeArchive(runs.tape)

\* ------------------------------------------------------ termination (C18)
\* C18: parse_tape comes to an end on every tape image.  Every turn of
\* its loop that neither raises nor ends the loop brings it nearer to
\* the end: it steps over the block at loc, or, where it stays at the
\* block (a tape mark after labels), it empties a record that held
\* something; a tape mark that carries a label itself is no exception.
C18_ParseTapeTerminates ==
  [][(pc = "parse_tape" /\ pc' = "parse_tape") =>
       \/ loc' > loc
       \/ loc' = loc /\ Len(px'.tape_file) < Len(px.tape_file)]_vars

\* ------------------------------------------------------ termination (C19)
\* C19: parse_xmi comes to an end on every input.  While segments are
\* left, the turn of the loop at loc changes something, the offset or
\* what has been read: it is never a turn that leaves parse_xmi where it
\* was, to be taken again without end, whatever length the segment
\* gives, 0 and 1 too.
C19_ParseXmiTerminates ==
  (pc = "parse_xmi" /\ loc < Len(xmit_object)) => ENABLED << PX_Segment >>_vars

\* ------------------------------------------ the file of a segment (C20)
\* The names of the datasets a step has made, or changed the entry of.
TouchedNames ==
  IF ~Has(xmit', "file") THEN {}
  ELSE { xmit'["file"][i].k : i \in { j \in 1..Len(xmit'["file"]) :
                                         \/ ~Has(xmit, "file")
                                         \/ j > Len(xmit["file"])
                                         \/ xmit'["file"][j] # xmit["file"][j] } }

\* The dataset name of the INMR02 header seen last.
CurrentName ==
  IF /\ Has(xmit, "INMR02")
     /\ Has(xmit["INMR02"], INMR02_count)
     /\ Has(xmit["INMR02"][INMR02_count], "INMDSNAM")
  THEN { xmit["INMR02"][INMR02_count]["INMDSNAM"].v }
  ELSE {}

\* C20: parse_xmi stores the payload of a data segment under the dataset
\* name of the file that is current by the count of the INMR02 headers
\* seen so far, and under no other file's.
C20_SegmentsGoToTheirFile ==
  [][(pc = "parse_xmi" /\ pc' = "parse_xmi") => TouchedNames \subseteq CurrentName]_vars

\* ------------------------------------------------- the tape mark (C21)
\* A turn of parse_tape's loop has stored the record as a dataset.
Flushed == px'.file_num # px.file_num

\* The record the turn at loc has in hand, the payload of the block
\* included, is a dataset: it is not empty and begins with no label.
RecordAtHand ==
  LET tape_file == px.tape_file \o Decompressed(BlockAt(loc)).val
  IN  /\ tape_file # << >>
      /\ decode(PySlice(tape_file, 0, 4))
           \notin { STR_VOL1, STR_HDR1, STR_HDR2, STR_EOF1, STR_EOF2 }

\* C21: a turn of parse_tape's loop stores the record if and only if
\* the block it reads carries the tape-mark bit 0x4000, whatever other
\* bits come with it: no block without the bit makes it store, and every
\* block with the bit stores the record at hand.
C21_FlushAtTapeMarkOnly ==
  [][(pc = "parse_tape" /\ pc' = "parse_tape" /\ loc < Len(tape_object)) =>
       /\ Flushed => Bit(BlockAt(loc).flags, EOF)
       /\ (Bit(BlockAt(loc).flags, EOF) /\ RecordAtHand) => Flushed]_vars

\* ------------------------------------------------ labels and data (C22)
\* The bytes begin with the eye-catcher of a label.
BeginsAsLabel(t) ==
  \/ decode(PySlice(t, 0, 4)) \in { STR_VOL1, STR_HDR1, STR_HDR2, STR_EOF1, STR_EOF2 }
  \/ decode(PySlice(t, 0, 3)) = STR_UTL

\* The bytes are labels and nothing else: records of 80 bytes, each
\* beginning with the eye-catcher of a label.
RECURSIVE AllLabels(_)
AllLabels(t) ==
  IF t = << >> THEN TRUE
  ELSE IF Len(t) < 80 THEN FALSE
  ELSE BeginsAsLabel(t) /\ AllLabels(PyFrom(t, 80))

\* C22: what parse_tape has in hand at a tape mark is left out of the
\* datasets exactly when it is labels (records of 80 bytes that begin
\* with VOL1, HDR1, HDR2, UTL, EOF1 or EOF2); everything else that is not
\* empty is stored as a dataset.
C22_LabelsAreNotDatasets ==
  [][(/\ pc = "parse_tape" /\ pc' = "parse_tape" /\ loc < Len(tape_object)
      /\ px'.eof_marker
      /\ px.tape_file \o Decompressed(BlockAt(loc)).val # << >>) =>
       (Flushed <=> ~AllLabels(px.tape_file \o Decompressed(BlockAt(loc)).val))]_vars

\* ------------------------------------------- aliases of each other (C23)
\* The places in the directory, as process_blocks got it, of the members
\* at the TTR t.
PlacesAt(t) == { i \in 1..Len(pb.directory) : pb.directory[i].v["ttr"] = t }

\* The TTRs all of whose members are marked alias.
AllAliasTtrs ==
  { t \in { pb.directory[i].v["ttr"] : i \in 1..Len(pb.directory) } :
      \A i \in PlacesAt(t) : pb.directory[i].v["alias"] }

FirstPlaceAt(t) == CHOOSE i \in PlacesAt(t) : \A j \in PlacesAt(t) : i <= j

\* C23: where all the members of a TTR are marked alias, process_blocks
\* clears the flag of the first of them in directory order and of no
\* other, and the data of the TTR goes to that member.
C23_FirstAliasIsPromoted ==
  pc \in { "pb_loop", "parsed" } =>
    \A t \in AllAliasTtrs :
      /\ ~Dsn["members"][FirstPlaceAt(t)].v["alias"]
      /\ \A j \in PlacesAt(t) \ { FirstPlaceAt(t) } : Dsn["members"][j].v["alias"]
      /\ pb.ttrs[t] = pb.directory[FirstPlaceAt(t)].k

\* ------------------------------------------- values of text units (C24)
\* The items of a text unit: n items from the offset of the length of
\* the first.
RECURSIVE ItemsFrom(_, _, _)
ItemsFrom(recs, at, n) ==
  IF n = 0 THEN << >>
  ELSE << PySlice(recs, at + 2, at + 2 + get_int(PySlice(recs, at, at + 2))) >>
         \o ItemsFrom(recs, at + 2 + get_int(PySlice(recs, at, at + 2)), n - 1)

\* The items decoded and joined with dots.
RECURSIVE DotJoined(_)
DotJoined(items) ==
  IF Len(items) = 1 THEN decode(items[1])
  ELSE decode(items[1]) \o << DOT >> \o DotJoined(Tail(items))

\* The value of a text unit by the type of its own key.
OwnValue(key, items) ==
  IF text_keys[key].name = "INMDSNAM" THEN Str(DotJoined(items))
  ELSE IF text_keys[key].type = "character" THEN Str(decode(items[Len(items)]))
  ELSE IF text_keys[key].type = "decimal" THEN Num(get_int(items[Len(items)]))
  ELSE IF text_keys[key].name = "INMTYPE" THEN Inmtype(get_int(items[Len(items)]))
  ELSE Bytes(items[Len(items)])

\* The key and the number of items of the text unit text_units is at.
KeyAt == get_int(PySlice(px.text_records, px.tu_loc, px.tu_loc + 2))

NumAt == get_int(PySlice(px.text_records, px.tu_loc + 2, px.tu_loc + 4))

\* C24: text_units gives every text unit of a known key the value of its
\* own type (character: the decoded string; decimal: the integer; hex:
\* the bytes, INMTYPE in words; INMDSNAM alone: its items joined with
\* dots), whatever keys came before it in the record.
C24_UnitsDecodeByOwnType ==
  [][(/\ pc = "text_units" /\ pc' = "text_units"
      /\ px.tu_loc + 4 <= Len(px.text_records)
      /\ KeyAt \in DOMAIN text_keys
      /\ NumAt > 0) =>
       px'.tu[text_keys[KeyAt].name]
         = OwnValue(KeyAt, ItemsFrom(px.text_records, px.tu_loc + 4, NumAt))]_vars

\* ------------------------------------------------------ termination (C25)
\* C25: text_units comes to an end on every record.  The turn of its
\* loop at a text unit, which has its key and its number of items in
\* four bytes, moves the offset forward, whatever the key and the number
\* of items, 0 too.
C25_TextUnitsTerminates ==
  (pc = "text_units" /\ px.tu_loc + 4 <= Len(px.text_records)) =>
    UnitAt(px.text_records, px.tu_loc).loc > px.tu_loc


\* ------------------------------------------------- the directory (C26)
\* The names of the entries of one directory block, in their order, up to
\* the end of the block or the end of the directory.
RECURSIVE BlockNames(_, _, _)
BlockNames(info, len, at) ==
  IF at >= len THEN [names |-> << >>, ended |-> FALSE]
  ELSE IF PySlice(info, at, at + 8) = SENTINEL THEN [names |-> << >>, ended |-> TRUE]
  ELSE LET rest == BlockNames(info, len, at + 12 + (At(info, at + 11) % 32) * 2)
       IN  [names |-> << rstrip(decode(PySlice(info, at, at + 8))) >> \o rest.names,
            ended |-> rest.ended]

\* The names of a directory: those of its blocks, one block every 276
\* bytes, up to the end of the directory.
RECURSIVE NamesInOrder(_, _)
NamesInOrder(directory, block_loc) ==
  IF block_loc >= Len(directory) THEN << >>
  ELSE LET len == get_int(PySlice(directory, block_loc + 20, block_loc + 22)) - 2
           b == BlockNames(PySlice(directory, block_loc + 22, block_loc + 22 + len), len, 0)
       IN  b.names \o (IF b.ended THEN << >>
                       ELSE NamesInOrder(directory, block_loc + 276))

\* C26: get_members_info returns the entries of the directory that come
\* before the entry of eight 0xFF, in the order of the directory, every
\* block of 276 bytes read in its turn and none left out, also after a
\* block that its entries fill.
C26_EveryDirectoryBlockIsRead ==
  pc = "gt_blocks" =>
    ODKeys(ODGet(tape["file"], TapeFileName)["members"]) = NamesInOrder(px.member_dir, 0)


\* ------------------------------------------------- the message (C27)
\* The turn of parse_xmi is at a data segment; what the segment carries.
AtDataSegment ==
  /\ pc = "parse_xmi"
  /\ loc < Len(xmit_object)
  /\ ~Bit(get_int(PySlice(xmit_object, loc + 1, loc + 2)), 32)

SegmentPayload ==
  PySlice(xmit_object, loc + 2, loc + get_int(PySlice(xmit_object, loc, loc + 1)))

\* The file the segment belongs to is the one of the INMR03 seen last; it
\* is the message when its INMR02 has no INMDSNAM and INMTERM was seen.
OfMessage ==
  /\ msg
  /\ Has(xmit, "INMR02") /\ Has(xmit, "INMR03")
  /\ Has(xmit["INMR02"], INMR03_count) /\ Has(xmit["INMR03"], INMR03_count)
  /\ ~Has(xmit["INMR02"][INMR03_count], "INMDSNAM")
  /\ Has(xmit["INMR03"][INMR03_count], "INMLRECL")

MessageSoFar == IF Has(xmit, "message") THEN xmit["message"]["file"] ELSE << >>

\* C27: a data segment is added to the message when the file it belongs
\* to has an INMR02 without INMDSNAM and INMTERM was seen, the message
\* taking the LRECL of that file's INMR03; the data segments of the other
\* files leave the message as it was.
C27_MessageSegmentsGoToTheMessage ==
  [][AtDataSegment =>
       IF OfMessage
       THEN /\ Has(xmit', "message")
            /\ xmit'["message"]["file"] = MessageSoFar \o SegmentPayload
            /\ xmit'["message"]["lrecl"] = xmit["INMR03"][INMR03_count]["INMLRECL"]
       ELSE /\ Has(xmit', "message") <=> Has(xmit, "message")
            /\ Has(xmit, "message") => xmit'["message"] = xmit["message"]]_vars


\* ------------------------------------------------ force_convert (C28)
\* The entries of the files of a model, and of the members of its
\* archives, that have been classified.
ClassifiedFiles(model) ==
  IF ~Has(model, "file") THEN {}
  ELSE { model["file"][i].v : i \in { j \in 1..Len(model["file"]) :
           /\ Has(model["file"][j].v, "filetype")
           /\ model["file"][j].v["filetype"] # "pds/directory" } }

ClassifiedMembers(model) ==
  IF ~Has(model, "file") THEN {}
  ELSE UNION { { model["file"][i].v["members"][k].v :
                   k \in { n \in 1..Len(model["file"][i].v["members"]) :
                             Has(model["file"][i].v["members"][n].v, "mimetype") } } :
               i \in { j \in 1..Len(model["file"]) : Has(model["file"][j].v, "members") } }

\* C28: with force set, whatever go() has classified, a sequential
\* dataset of an XMIT file, a file of a tape or a member of an archive,
\* has the extension .txt and a text, whatever its bytes look like.
C28_ForceConvertsEverything ==
  (pc = "parsed" /\ force) =>
    \A e \in ClassifiedFiles(xmit) \cup ClassifiedFiles(tape)
              \cup ClassifiedMembers(xmit) \cup ClassifiedMembers(tape) :
      e["extension"] = ".txt" /\ Has(e, "text")


\* ------------------------------------------- names of tape files (C29)
\* The entries of the tape are named as their labels say: one that has
\* an HDR1 by the DSN of it, the others FILE0001, FILE0002, ... counted
\* among themselves in the order in which they came.
NamedByLabel ==
  Has(tape, "file") =>
    \A i \in 1..Len(tape["file"]) :
      LET e == tape["file"][i]
          before == { j \in 1..(i - 1) : ~Has(tape["file"][j].v, "HDR1") }
      IN  e.k = IF Has(e.v, "HDR1") THEN e.v["HDR1"]["dsn"]
                ELSE FileName(1 + Cardinality(before))

\* The turn drops labels, an HDR1 the first of them.
DropsHDR1 ==
  LET tape_file == px.tape_file \o Decompressed(BlockAt(loc)).val
  IN  /\ px'.eof_marker
      /\ px'.tape_file = << >>
      /\ Len(tape_file) >= 80
      /\ decode(PySlice(tape_file, 0, 4)) = STR_HDR1

\* C29: a dataset of a tape that comes after an HDR1 label has the name
\* the label gives, the 17 bytes of its DSN without the blanks around
\* them; the datasets without an HDR1 are FILE0001, FILE0002, ... in the
\* order in which they come, counted among themselves; and the labels
\* HDR1, HDR2 and UTL go with the first dataset stored after them and
\* with none after it.
C29_TapeFilesAreNamedByLabel ==
  [][(pc = "parse_tape" /\ pc' = "parse_tape" /\ loc < Len(tape_object)) =>
       /\ NamedByLabel'
       /\ DropsHDR1 =>
            /\ Has(px'.HDR1, "dsn")
            /\ px'.HDR1["dsn"]
                 = strip(decode(PySlice(px.tape_file \o Decompressed(BlockAt(loc)).val,
                                        4, 21)))
       /\ Flushed =>
            /\ px'.HDR1 = EmptyDict
            /\ px'.HDR2 = EmptyDict
            /\ px'.UTL = << >>]_vars


\* --------------------------------- get_tape_files comes to an end (C30)
\* C30: get_tape_files comes to an end on every dataset that begins with
\* a COPYR1.  While blocks of the directory, or of the members, are left,
\* the turn of the loop over them moves the offset on, whatever length
\* the block's descriptor word gives, 0 too: it is never a turn that
\* leaves the offset where it was, to be taken again without end.
C30_GetTapeFilesTerminates ==
  (pc \in { "gt_directory", "gt_blocks" } /\ loc < Len(px.dataset)) =>
    AfterBlock(px.dataset, loc) > loc


\* ------------------------------------------- groups and members (C31)
\* The groups of data blocks that are complete in the first bytes of the
\* member blocks, up to the offset stop, in the order in which they come:
\* a block of TTR 0 and data length 0 is passed over, a block of data
\* length 0 ends the group of the blocks since the group before.
RECURSIVE GroupsIn(_, _, _, _)
GroupsIn(at, stop, group, done) ==
  IF at >= stop THEN done
  ELSE LET len == get_int(PySlice(member_blocks, at + 10, at + 12))
           ttr == get_int(PySlice(member_blocks, at + 6, at + 9))
           data == PySlice(member_blocks, at + 12, at + 12 + len)
       IN  IF ttr = 0 /\ len = 0 THEN GroupsIn(at + 12, stop, group, done)
           ELSE IF len = 0
           THEN GroupsIn(at + 12, stop, << >>, Append(done, Append(group, data)))
           ELSE GroupsIn(at + len + 12, stop, Append(group, data), done)

\* The TTRs of the members of the directory that are no aliases.
PlainTtrs(members) ==
  { members[i].v["ttr"] : i \in { j \in 1..Len(members) :
                                    /\ ~members[j].v["alias"]
                                    /\ Has(members[j].v, "ttr") } }

\* n is a member that is no alias, and its TTR is the k-th smallest of
\* the TTRs of such members.
IsKthMember(members, n, k) ==
  /\ ODHas(members, n)
  /\ ~ODGet(members, n)["alias"]
  /\ Has(ODGet(members, n), "ttr")
  /\ Cardinality({ t \in PlainTtrs(members) : t < ODGet(members, n)["ttr"] }) = k - 1

\* The turn of process_blocks ends a group: a payload is stored.
EndsGroup == pc = "pb_loop" /\ pb'.ttr_location = pb.ttr_location + 1

\* C31: process_blocks gives the k-th complete group of data blocks, in
\* the order in which the groups come, to the member that is no alias and
\* has the k-th smallest TTR; the blocks of TTR 0 and data length 0 are
\* passed over and neither end nor begin a group.
C31_GroupsGoToMembersByTtr ==
  [][EndsGroup =>
       LET groups == GroupsIn(0, loc', << >>, << >>)
       IN  /\ IsKthMember(Dsn["members"], pb'.member_name, Len(groups))
           /\ pb'.attributed[pb'.member_name].blocks = groups[Len(groups)]]_vars


\* The groups process_blocks counts: those of GroupsIn, but in a PDSE the
\* blocks that come after the end of a group and have the TTR of the
\* block that ended it are passed over, up to the first block of another
\* TTR.
RECURSIVE CountedIn(_, _, _, _, _, _)
CountedIn(at, stop, group, done, closed, prev_ttr) ==
  IF at >= stop THEN done
  ELSE LET len == get_int(PySlice(member_blocks, at + 10, at + 12))
           ttr == get_int(PySlice(member_blocks, at + 6, at + 9))
           data == PySlice(member_blocks, at + 12, at + 12 + len)
       IN  IF closed /\ ttr = prev_ttr
           THEN CountedIn(at + len + 12, stop, group, done, closed, prev_ttr)
           ELSE IF ttr = 0 /\ len = 0
           THEN CountedIn(at + 12, stop, group, done, FALSE, prev_ttr)
           ELSE IF len = 0
           THEN CountedIn(at + 12, stop, << >>, Append(done, Append(group, data)),
                          Dsn["COPYR1"]["type"] = "PDSE", ttr)
           ELSE CountedIn(at + len + 12, stop, Append(group, data), done, FALSE, prev_ttr)

\* n is the last member of the directory that is no alias and has the
\* k-th smallest of the TTRs of such members.
IsLastKthMember(members, n, k) ==
  /\ IsKthMember(members, n, k)
  /\ \A i, j \in 1..Len(members) :
       (/\ members[i].k = n
        /\ ~members[j].v["alias"]
        /\ Has(members[j].v, "ttr")
        /\ members[j].v["ttr"] = members[i].v["ttr"]) => j <= i

\* C31, amended: process_blocks gives the k-th group it counts to the
\* member that is no alias and has the k-th smallest TTR, the last such
\* member of the directory where several have that TTR, as long as there
\* are k such TTRs.  It counts the complete groups in the order in which
\* they come, without the blocks of TTR 0 and data length 0, and in a
\* PDSE without the blocks that follow the end of a group under the TTR
\* of the block that ended it.
C31_CountedGroupsGoToMembersByTtr ==
  [][EndsGroup =>
       LET groups == CountedIn(0, loc', << >>, << >>, FALSE, 0)
       IN  Len(groups) <= Cardinality(PlainTtrs(Dsn["members"])) =>
             /\ IsLastKthMember(Dsn["members"], pb'.member_name, Len(groups))
             /\ pb'.attributed[pb'.member_name].blocks = groups[Len(groups)]]_vars

\* In a PDSE a second group has been given to a member after blocks were
\* passed over: more groups are complete than process_blocks has counted.
C31_Witness ==
  /\ pc = "pb_loop"
  /\ Dsn["COPYR1"]["type"] = "PDSE"
  /\ pb.ttr_location = 2
  /\ Len(GroupsIn(0, loc, << >>, << >>)) > 2
  /\ Len(CountedIn(0, loc, << >>, << >>, FALSE, 0)) = 2
  /\ Has(ODGet(Dsn["members"], pb.member_name), "data")


\* ------------------------------------------------ the blocks of a dataset (C32)
\* The block list of a dataset of the XMIT model.
BlocksOf(x, dsn) ==
  IF Has(x, "file") /\ ODHas(x["file"], dsn) /\ Has(ODGet(x["file"], dsn), "data")
  THEN ODGet(x["file"], dsn)["data"]
  ELSE << >>

DatasetsOf(x) == IF Has(x, "file") THEN { x["file"][i].k : i \in 1..Len(x["file"]) } ELSE {}

\* C32: a block is added to the block list of a dataset only at a data
\* segment with flag 0x40 that is no segment of the message, and it is the
\* payloads gathered since the 0x40 segment before it followed by the
\* payload of this segment; a data segment without 0x40 adds its payload
\* to what is gathered, and a control segment or a segment of the message
\* leaves the gathered bytes and every block list as they were.
C32_BlocksAreTheGatheredPayloads ==
  [][(pc = "parse_xmi" /\ loc < Len(xmit_object)) =>
       LET flag == get_int(PySlice(xmit_object, loc + 1, loc + 2))
           counts == ~Bit(flag, 32) /\ ~OfMessage
           record_data == px.record_data \o SegmentPayload
       IN  /\ \A dsn \in DatasetsOf(xmit) \cup DatasetsOf(xmit') :
                \/ BlocksOf(xmit', dsn) = BlocksOf(xmit, dsn)
                \/ /\ counts
                   /\ Bit(flag, 64)
                   /\ BlocksOf(xmit', dsn) = Append(BlocksOf(xmit, dsn), record_data)
           /\ ~counts => px'.record_data = px.record_data
           /\ (counts /\ pc' # "raised") =>
                IF Bit(flag, 64)
                THEN /\ px'.record_data = << >>
                     /\ \E dsn \in DatasetsOf(xmit') :
                          BlocksOf(xmit', dsn) # BlocksOf(xmit, dsn)
                ELSE px'.record_data = record_data]_vars


\* ------------------------------------------------ one archive per object (C33)
\* C33: when go() has returned, the object holds the model of the archive
\* it was given last and no other: after an XMIT file has_tape() is
\* false, after a tape has_xmi() is false, so that the two are never both
\* true and get_files lists the last archive only.
C33_OneArchiveVariant ==
  pc = "parsed" =>
    IF filetype_is_xmi(PySlice(file_object, 0, 10))
    THEN has_xmi_model /\ ~has_tape_model
    ELSE has_tape_model /\ ~has_xmi_model


\* ------------------------------------------- one entry per record (C34)
\* C34: a turn of parse_tape's loop that stores a record adds one entry
\* to the datasets of the tape and leaves the entries stored before as
\* they were, so that the tape has as many datasets as records were
\* stored.
C34_EveryRecordIsItsOwnEntry ==
  [][(pc = "parse_tape" /\ loc < Len(tape_object) /\ Flushed) =>
       /\ Len(tape'["file"]) = Len(tape["file"]) + 1
       /\ SubSeq(tape'["file"], 1, Len(tape["file"])) = tape["file"]
       /\ Len(tape'["file"]) = px'.file_num - 1]_vars


\* ------------------------------------------------ the first record (C35)
\* The longest COPYR1 structure tried, the prefix not counted.
MaxCopyr1 == 66

\* First records: with the 8-byte prefix of a tape or without it, the
\* PDSE bit set or not, the eye-catcher or three other bytes, and then up
\* to MaxCopyr1 bytes in all, zeroes or zeroes and a last byte 1.
FirstRecords ==
  { prefix \o << b0 >> \o eye \o rest :
      prefix \in { << >>, Zeroes(8) },
      b0 \in { 0, 1 },
      eye \in { << 202, 109, 15 >>, << 202, 109, 14 >> },
      rest \in UNION { { Zeroes(n), Zeroes(n) \o << 1 >> } : n \in 0..(MaxCopyr1 - 5) } }

\* An object is made and iebcopy_record_1 is about to be called with a
\* first record.
InitCopyr1 ==
  \E first_record \in FirstRecords :
    /\ NewXMIT(<< >>, FALSE, FALSE)
    /\ runs = FirstRun(<< >>)
    /\ pc = "iebcopy_record_1"
    /\ loc = 0
    /\ member_blocks = << >>
    /\ pb = NoBlocks
    /\ px = NoLocals
    /\ lastOp = [op |-> "iebcopy_record_1", first_record |-> first_record]
    /\ result = Ok("None")

\* iebcopy_record_1(first_record), lines 1671-1744: it returns the
\* COPYR1 or raises.
IR1_Call ==
  /\ pc = "iebcopy_record_1"
  /\ result' = iebcopy_record_1(lastOp.first_record)
  /\ pc' = IF result'.kind = "raise" THEN "raised" ELSE "returned"
  /\ UNCHANGED << xmit, tape, objectVars, loc, member_blocks, pb, px, lastOp >>

NextCopyr1 == IR1_Call

SpecCopyr1 == InitCopyr1 /\ [][NextCopyr1]_vars

\* C35: iebcopy_record_1 returns a COPYR1 if and only if the eye-catcher
\* 0xCA6D0F is at the offsets 1..4, or at 9..12 behind an 8-byte prefix,
\* and the structure without that prefix has at most 64 bytes; when one
\* of the two fails it raises one of its two exceptions about a bad
\* COPYR1.
C35_AcceptsAGoodCOPYR1 ==
  (pc \in { "returned", "raised" } /\ lastOp.op = "iebcopy_record_1") =>
    LET first_record == lastOp.first_record
        xmit_eye == get_int(PySlice(first_record, 1, 4)) = EYECATCHER
        tape_eye == get_int(PySlice(first_record, 9, 12)) = EYECATCHER
        structure == IF xmit_eye THEN first_record ELSE PyFrom(first_record, 8)
        good == (xmit_eye \/ tape_eye) /\ Len(structure) <= 64
    IN  IF good THEN result.kind = "ok"
        ELSE /\ result.kind = "raise"
             /\ result.val \in { "COPYR1 header eyecatcher 0xCA6D0F not found",
                                  "COPYR1 Length longer than 64 records" }


\* ------------------------------------------------ the volume label (C36)
\* The first record of the tape begins with 'VOL1'.
FirstIsVOL1 ==
  decode(PySlice(Decompressed(BlockAt(0)).val, 0, 4)) = STR_VOL1

\* C36: when parse_tape has returned, the tape has a volume label if and
\* only if its first record begins with 'VOL1': no record after the first
\* gives it one.
C36_VolumeLabelIsTheFirstRecord ==
  (pc = "get_tape_files" /\ px.file_at = 1) => (Has(tape, "label") <=> FirstIsVOL1)


\* ------------------------------------------------ the loading thread (C37, C38)
\* xmission.py.  The parser objects the window has made are gui.objects,
\* each "unparsed", "partial" (open() is at work on it), "parsed" or
\* "failed" (open() raised); self.XMI is the number of one of them, 0 for
\* the object of __init__.  gui.threads are the worker threads, each at
\* a place of run_thread and load_file; gui.idle counts the stop_progress
\* callbacks handed to GLib.idle_add, gui.timeouts the update_progress
\* timers; gui.at is where the GUI thread stands: in its main loop, or in
\* stop_progress at work_thread.join().

\* The most calls of loading_file in a behaviour.
MaxLoads == 2

ObjectState(n) == IF n = 0 THEN "unparsed" ELSE gui.objects[n]

\* A worker thread is inside load_file.
InLoadFile(t) == t.pc \in { "load_file", "open", "opened", "failed" }

Loading == \E i \in 1..Len(gui.threads) : InLoadFile(gui.threads[i])

GuiOnly ==
  UNCHANGED << xmit, tape, msg, force, binary, unnum, INMR02_count, INMR03_count,
               filelocation, file_object, xmit_object, tape_object, pc, loc,
               member_blocks, pb, px, lastOp, result, runs >>

\* loading_file, lines 921-933: the loading window is shown, a thread is
\* made for run_thread, running is set, the timer is added and the thread
\* is started.
loading_file(g) ==
  [g EXCEPT !.working_window = "shown",
            !.threads = Append(@, [pc |-> "run_thread", target |-> 0]),
            !.work_thread = Len(g.threads) + 1,
            !.running = TRUE,
            !.timeouts = @ + 1]

\* open_response, lines 660-675: the user has chosen a file; its bytes
\* are read and loading_file is called.
open_response ==
  /\ gui.at = "main"
  /\ Len(gui.threads) < MaxLoads
  /\ gui' = loading_file([gui EXCEPT !.file_data = TRUE, !.handler = "open_response"])
  /\ GuiOnly

\* toggle_unnum and change_codec, lines 612-621 and 150-156, and
\* refresh_file, lines 788-796: the file is loaded again when there is
\* one.
refresh_file ==
  /\ gui.at = "main"
  /\ Len(gui.threads) < MaxLoads
  /\ \E h \in { "toggle_unnum", "change_codec" } :
       gui' = IF gui.file_data THEN loading_file([gui EXCEPT !.handler = h])
              ELSE [gui EXCEPT !.handler = h]
  /\ GuiOnly

\* single_click, go_home, double_click, lines 251-279, 895-901, 302-316:
\* handlers of the main loop that ask self.XMI for its files and members.
\* What they find is the state of the object self.XMI names now.
QueryHandler ==
  /\ gui.at = "main"
  /\ \E h \in { "single_click", "go_home", "double_click" } :
       gui' = [gui EXCEPT !.handler = h,
                          !.observed = [XMI |-> ObjectState(gui.XMI), loading |-> Loading]]
  /\ GuiOnly

\* update_progress, lines 935-938: the timer pulses the bar while running
\* is set, and is removed when it is not.
update_progress ==
  /\ gui.at = "main"
  /\ gui.timeouts > 0
  /\ gui' = IF gui.running THEN [gui EXCEPT !.progress_bar = 1 - @]
             ELSE [gui EXCEPT !.timeouts = @ - 1]
  /\ GuiOnly

\* stop_progress, lines 948-951, as the idle callback of the main loop:
\* running is cleared and the GUI thread waits for work_thread.
stop_progress ==
  /\ gui.at = "main"
  /\ gui.idle > 0
  /\ gui' = [gui EXCEPT !.idle = @ - 1, !.running = FALSE, !.at = "join"]
  /\ GuiOnly

\* stop_progress, lines 950-951: work_thread has ended, join returns and
\* the loading window is hidden.
stop_progress_joined ==
  /\ gui.at = "join"
  /\ gui.threads[gui.work_thread].pc \in { "finished", "died" }
  /\ gui' = [gui EXCEPT !.working_window = "hidden", !.at = "main"]
  /\ GuiOnly

\* load_file, lines 803-814, in the worker thread: a new parser object,
\* given the file name and the bytes, is put in self.XMI.
load_file_new(i) ==
  /\ gui.threads[i].pc = "run_thread"
  /\ gui' = [gui EXCEPT !.objects = Append(@, "unparsed"),
                         !.XMI = Len(gui.objects) + 1,
                         !.threads[i].pc = "load_file"]
  /\ GuiOnly

\* load_file, line 816: self.XMI.open() is called, on the object that
\* self.XMI names at that moment.
load_file_open(i) ==
  /\ gui.threads[i].pc = "load_file"
  /\ gui' = [gui EXCEPT !.objects[gui.XMI] = "partial",
                         !.threads[i].pc = "open",
                         !.threads[i].target = gui.XMI]
  /\ GuiOnly

\* load_file, lines 815-817: open() returns, or raises.
load_file_opened(i) ==
  /\ gui.threads[i].pc = "open"
  /\ \E outcome \in { "parsed", "failed" } :
       gui' = [gui EXCEPT !.objects[gui.threads[i].target] = outcome,
                          !.threads[i].pc = IF outcome = "parsed" THEN "opened" ELSE "failed"]
  /\ GuiOnly

\* load_file, lines 829-857: the files of self.XMI are listed.  On an
\* object that has parsed nothing check_parsed raises and the thread
\* ends there; on one that is being parsed either may happen.
load_file_fill(i) ==
  /\ gui.threads[i].pc = "opened"
  /\ \E raises \in BOOLEAN :
       /\ ObjectState(gui.XMI) = "parsed" => ~raises
       /\ ObjectState(gui.XMI) \in { "unparsed", "failed" } => raises
       /\ gui' = [gui EXCEPT !.threads[i].pc = IF raises THEN "died" ELSE "returned"]
  /\ GuiOnly

\* load_file, lines 817-827: open() has raised; the error window is run
\* and self.stop_progress(None) is called, which is a TypeError, since
\* stop_progress takes no argument: the thread ends with it.
load_file_error(i) ==
  /\ gui.threads[i].pc = "failed"
  /\ gui' = [gui EXCEPT !.threads[i].pc = "died"]
  /\ GuiOnly

\* run_thread, line 945: load_file has returned and stop_progress is
\* handed to the main loop.
run_thread_idle_add(i) ==
  /\ gui.threads[i].pc = "returned"
  /\ gui' = [gui EXCEPT !.threads[i].pc = "finished", !.idle = @ + 1]
  /\ GuiOnly

run_thread == \E i \in 1..Len(gui.threads) :
  \/ load_file_new(i)
  \/ load_file_open(i)
  \/ load_file_opened(i)
  \/ load_file_fill(i)
  \/ load_file_error(i)
  \/ run_thread_idle_add(i)

\* The window after __init__, no file given on the command line.
InitGui ==
  /\ gui = NoGui
  /\ xmit = EmptyDict
  /\ tape = EmptyDict
  /\ msg = FALSE
  /\ force = FALSE
  /\ binary = FALSE
  /\ unnum = TRUE
  /\ INMR02_count = 0
  /\ INMR03_count = 0
  /\ filelocation = 1
  /\ file_object = << >>
  /\ xmit_object = << >>
  /\ tape_object = << >>
  /\ runs = FirstRun(<< >>)
  /\ pc = "gui"
  /\ loc = 0
  /\ member_blocks = << >>
  /\ pb = NoBlocks
  /\ px = NoLocals
  /\ lastOp = [op |-> "go", pds |-> << >>, member |-> << >>, accessed |-> << >>]
  /\ result = Ok("None")

NextGui ==
  \/ open_response
  \/ refresh_file
  \/ QueryHandler
  \/ update_progress
  \/ stop_progress
  \/ stop_progress_joined
  \/ run_thread

SpecGui == InitGui /\ [][NextGui]_vars

\* The worker threads are scheduled, and the main loop runs its idle
\* callbacks and its timers; the user does what they like.
SpecGuiFair ==
  /\ SpecGui
  /\ WF_vars(run_thread)
  /\ WF_vars(stop_progress)
  /\ WF_vars(stop_progress_joined)
  /\ WF_vars(update_progress)

\* C37: once loading_file has started a worker thread the load comes to
\* an end: running is cleared by stop_progress and the loading window is
\* hidden, whether the parser returns or raises.
C37_LoadingComesToAnEnd ==
  gui.running ~> (~gui.running /\ gui.working_window = "hidden")

\* C38: a handler of the GUI thread that asks the parser while a worker
\* thread is inside load_file does not find self.XMI unparsed or partly
\* parsed.
C38_HandlersSeeAParsedObject ==
  gui.observed.loading => gui.observed.XMI \notin { "unparsed", "partial" }


\* ------------------------------------------------ nothing loaded (C39)
\* No parse has left a model in the object.
NothingLoaded == DOMAIN xmit = {} /\ DOMAIN tape = {}

\* The name 'A', of a dataset and of a member.
NameA == << 65 >>

\* What the queries of the facade answer about the dataset and the
\* member named.
AnswersAbout(pds, member) ==
  { get_files, has_message, get_message.out, get_owner, get_volser,
    get_members(pds), is_sequential(pds), is_pds(pds),
    get_member_info(pds, member), get_member_info_simple(pds, member),
    get_member_size(pds, member), get_member_decoded(pds, member),
    get_member_binary(pds, member), get_member_text(pds, member) }

\* C39: on an object in which no parse has left a model every query of
\* the facade that looks at the archive raises the error of check_parsed,
\* 'No XMI or Virtual Tape loaded.', and leaves the object as it was.
C39_QueriesRaiseNotLoaded ==
  NothingLoaded =>
    /\ \A out \in AnswersAbout(NameA, NameA) \cup { get_pds_info_simple(NameA) } :
         NotLoaded(out)
    /\ get_message.xmit = xmit


\* ------------------------------------------------ the DSORG decoder (C40)
\* The organisation bits that get_dsorg tests, in the order of its tests
\* (lines 1066-1075), each with the name it assigns.
OrgBits ==
  << [bit |-> 32768, name |-> "ISAM"], [bit |-> 16384, name |-> "PS"],
     [bit |-> 8192, name |-> "DA"], [bit |-> 4096, name |-> "BTAM"],
     [bit |-> 512, name |-> "PO"] >>

\* Bits of a DSORG that get_dsorg does not look at: none, one, two, and
\* all of them.
OtherBits == { 0, 2, 1024, 3582 }

\* 16-bit DSORG values: every combination of the organisation bits and of
\* the U bit, over the other bits.
DsorgValues ==
  { a * 32768 + b * 16384 + c * 8192 + d * 4096 + f * 512 + u + o :
      a \in { 0, 1 }, b \in { 0, 1 }, c \in { 0, 1 }, d \in { 0, 1 },
      f \in { 0, 1 }, u \in { 0, 1 }, o \in OtherBits }

\* An object is made and get_dsorg is about to be called with the value
\* as the two bytes of a text unit, or as the number they stand for.
InitDsorg ==
  \E v \in DsorgValues, as_bytes \in BOOLEAN :
   LET dsorg == IF as_bytes THEN Bytes(<< v \div 256, v % 256 >>) ELSE Num(v) IN
    /\ NewXMIT(<< >>, FALSE, FALSE)
    /\ runs = FirstRun(<< >>)
    /\ pc = "get_dsorg"
    /\ loc = 0
    /\ member_blocks = << >>
    /\ pb = NoBlocks
    /\ px = NoLocals
    /\ lastOp = [op |-> "get_dsorg", dsorg |-> dsorg]
    /\ result = Ok("None")

\* get_dsorg(dsorg), lines 1059-1080: it returns the name.
GD_Call ==
  /\ pc = "get_dsorg"
  /\ result' = get_dsorg(lastOp.dsorg)
  /\ pc' = IF result'.kind = "raise" THEN "raised" ELSE "returned"
  /\ UNCHANGED << xmit, tape, objectVars, loc, member_blocks, pb, px, lastOp >>

NextDsorg == GD_Call

SpecDsorg == InitDsorg /\ [][NextDsorg]_vars

\* The number get_dsorg was called for.
DsorgValue ==
  IF lastOp.dsorg.t = "bytes" THEN lastOp.dsorg.v[1] * 256 + lastOp.dsorg.v[2]
  ELSE lastOp.dsorg.v

\* The organisation bits set in the value, as indices of OrgBits.
OrgBitsSet == { i \in 1..Len(OrgBits) : Bit(DsorgValue, OrgBits[i].bit) }

\* The name with U behind it when the bit 0x0001 is set.
WithU(name) == IF Bit(DsorgValue, 1) THEN name \o "U" ELSE name

GotDsorg == pc \in { "returned", "raised" } /\ lastOp.op = "get_dsorg"

\* The original reading of C40: the highest organisation bit that is set
\* names the value.
C40_HighestBitNamesIt ==
  (GotDsorg /\ OrgBitsSet # { }) =>
    LET i == CHOOSE j \in OrgBitsSet : \A k \in OrgBitsSet : j <= k
    IN  result = Ok(Dsorg(WithU(OrgBits[i].name)))

\* C40: get_dsorg maps every 16-bit DSORG value to the name of the lowest
\* organisation bit that is set in it (0x0200 PO, 0x1000 BTAM, 0x2000 DA,
\* 0x4000 PS, 0x8000 ISAM), to '?' when none of them is set, and appends
\* U when bit 0x0001 is set.
C40_LowestBitNamesIt ==
  GotDsorg =>
    IF OrgBitsSet = { } THEN result = Ok(Dsorg(WithU("?")))
    ELSE LET i == CHOOSE j \in OrgBitsSet : \A k \in OrgBitsSet : j >= k
         IN  result = Ok(Dsorg(WithU(OrgBits[i].name)))

\* A value with several organisation bits and the U bit has been named.
C40_Witness ==
  /\ GotDsorg
  /\ Cardinality(OrgBitsSet) > 1
  /\ Bit(DsorgValue, 1)
  /\ result = Ok(Dsorg("PSU"))

====
